---- MODULE Spec2Model ----
(***************************************************************************)
(* Signal-processing core of audio-signal-lab (js/audio-engine.js):        *)
(* band-limited oscillator spectra, instrument voices, the offline         *)
(* renderer, quantization / mu-law companding, SNR measurement and DAC     *)
(* reconstruction; and the page logic that drives it (js/main.js): the     *)
(* waveform list, the controls, the regeneration timer and the             *)
(* generateAllSignals pipeline.                                            *)
(*                                                                         *)
(* Numbers.  JavaScript doubles are modelled by exact rationals, written   *)
(* as pairs <<num, den>> with den > 0.  Irrational library results         *)
(* (Math.cos, Math.sin, Math.log, Math.pow, the constants 4/pi ...) are    *)
(* modelled in fixed point; each such place says so.  IEEE rounding of     *)
(* the rational operations themselves is not modelled.                     *)
(*                                                                         *)
(* Calls.  A specification of an exported function draws the arguments of  *)
(* one call in its initial state (pc = "call") and its action runs the     *)
(* function to completion (pc = "done"), leaving the returned object in    *)
(* ret.  The page is idle in these specifications.                         *)
(*                                                                         *)
(* Page.  SpecApp runs the event handlers of main.js, the browser's timers *)
(* and the asynchronous steps of generateAllSignals against the globals of *)
(* main.js; no exported function is called directly there (pc = "page").   *)
(* SpecAB runs the A/B player (the clicks on Play, Stop and the toggles)    *)
(* with the generation runs it waits for, SpecViz the animation-frame loop *)
(* of the VisualizationManager.                                            *)
(***************************************************************************)
EXTENDS Integers, Sequences, FiniteSets, TLC

VARIABLES
  \* one call of an exported function: position, arguments, returned object
  pc, args, ret,
  \* the typed arrays that exist, by identity (id :> contents)
  heap,
  \* main.js 19, 38-45: audioCtx, state.waveforms, nextWaveId, state.previewDur
  audioCtx, waveforms, nextWaveId, previewDur,
  \* the ids of the waveform rows in the page (the children of dom.wavesDiv),
  \* and the values of the recording and DAC controls
  rows, dom,
  \* the browser's pending timers, and the next id setTimeout returns
  timers, nextTimerId,
  \* main.js 583: generationTimer; utils.js 43: timeout of handleResize
  generationTimer, timeout,
  \* the generateAllSignals calls made so far, in the order they started
  runs,
  \* main.js 24-34: previewBuf, abSourceA, recorded, dacBuf, abSourceB
  previewBuf, abSourceA, recorded, dacBuf, abSourceB,
  \* observation: the user's events so far; per debounced function, the calls
  \* since its timer last ran and the time since the last call; what the last
  \* timer callback ran with
  events, calls, idle, lastFired,
  \* main.js 32, 509: abMode, abCurrentSource; the A/B buffer sources that are
  \* started and not stopped, and the identity of the next source created
  abMode, abCurrentSource, abPlaying, nextSourceId,
  \* main.js 1244: vizManager.rafId (0 for null); the animation-frame callbacks
  \* the browser holds, and the next id requestAnimationFrame returns
  rafId, animationFrames, nextFrameId,
  \* observation: what the last call of start, stop or draw did
  lastViz

callVars == <<pc, args, ret, heap>>
appVars == <<audioCtx, waveforms, nextWaveId, previewDur, rows, dom, timers,
             nextTimerId, generationTimer, timeout, runs, previewBuf,
             abSourceA, recorded, dacBuf, abSourceB, events, calls, idle,
             lastFired>>
playVars == <<abMode, abCurrentSource, abPlaying, nextSourceId>>
vizVars == <<rafId, animationFrames, nextFrameId, lastViz>>
pageVars == <<appVars, playVars, vizVars>>
vars == <<callVars, pageVars>>

(* ------------------------------------------------------------------ *)
(* Arithmetic helpers                                                  *)
(* ------------------------------------------------------------------ *)

\* Math.abs / Math.max / Math.min on integers
Abs(a) == IF a < 0 THEN -a ELSE a
Max(a, b) == IF a > b THEN a ELSE b
Min(a, b) == IF a < b THEN a ELSE b

\* utils.js: clamp = (x, lo, hi) => Math.min(hi, Math.max(lo, x))
clamp(x, lo, hi) == Min(hi, Max(lo, x))

\* exact rationals <<num, den>>, den > 0
Zero == <<0, 1>>
IsZero(r) == r[1] = 0
RECURSIVE Gcd(_, _)
Gcd(a, b) == IF b = 0 THEN a ELSE Gcd(b, a % b)
\* lowest terms
RatNorm(r) == LET g == Gcd(Abs(r[1]), r[2]) IN <<r[1] \div g, r[2] \div g>>
RatEq(r, s) == RatNorm(r) = RatNorm(s)
RatLe(r, s) == r[1] * s[2] <= s[1] * r[2]
RatLt(r, s) == r[1] * s[2] < s[1] * r[2]
RatAbs(r) == <<Abs(r[1]), r[2]>>

\* what a call has not returned yet
NoRet == [none |-> TRUE]

(* ------------------------------------------------------------------ *)
(* The page after DOMContentLoaded (main.js 18-45, 583, 591-745)       *)
(* ------------------------------------------------------------------ *)

\* null, for the globals that hold an object or nothing
NullRef == [null |-> TRUE]

\* main.js 154: { id, type, amp, freq, phaseDeg }; amp a rational, freq in Hz
Wave(id, type, amp, freq, phaseDeg) ==
  [id |-> id, type |-> type, amp |-> amp, freq |-> freq, phaseDeg |-> phaseDeg]

\* main.js 693-694 and 716: the controls whose input event schedules a
\* regeneration
RecControls == {"recRateSel", "bitDepthSel", "channelsSel", "recDurInput",
                "aaKindSel", "aaCutoffInput", "ditherSel", "compressionSel"}
DacControls == {"dacMethodSel", "dacLPInput"}
\* A control's value is opaque to the scheduling: the value the page loads
\* with, or another one.
ControlValues == {"initial", "other"}

\* the two functions behind a 250 ms timer: scheduleGeneration (main.js 584)
\* and handleResize (main.js 740)
Debounced == {"generateAllSignals", "renderWaves"}

\* main.js 18-45, 583 and the initial setup of lines 732-736: one sine of
\* id 1, no audio context, no timer (a timer id of 0 is no timer), no buffer
PageLoaded ==
  /\ audioCtx = NullRef
  /\ waveforms = <<Wave(1, "sine", <<6, 10>>, 440, 0)>>
  /\ nextWaveId = 2
  /\ previewDur = "initial"
  /\ rows = <<1>>
  /\ dom = [c \in RecControls \cup DacControls |-> "initial"]
  /\ timers = {}
  /\ nextTimerId = 1
  /\ generationTimer = 0
  /\ timeout = 0
  /\ runs = <<>>
  /\ previewBuf = NullRef
  /\ abSourceA = NullRef
  /\ recorded = NullRef
  /\ dacBuf = NullRef
  /\ abSourceB = NullRef
  /\ events = 0
  /\ calls = [f \in Debounced |-> [n |-> 0, arg |-> 0]]
  /\ idle = [f \in Debounced |-> 0]
  /\ lastFired = NullRef
  /\ abMode = "A"
  /\ abCurrentSource = NullRef
  /\ abPlaying = {}
  /\ nextSourceId = 1
  /\ rafId = 0
  /\ animationFrames = {}
  /\ nextFrameId = 1
  /\ lastViz = [op |-> "none", wasRunning |-> FALSE, draws |-> 0, requests |-> 0,
                pending |-> {}]

\* no typed array exists
NoHeap == <<>>

(* ------------------------------------------------------------------ *)
(* buildPeriodicWave (audio-engine.js 6-99)                            *)
(* ------------------------------------------------------------------ *)

\* Frequencies are multiples of 1/FreqDen Hz: f0 = 3 with FreqDen = 2 is 1.5 Hz.
FreqDen == 2
\* largest fundamental drawn, in units of 1/FreqDen Hz
MaxF0 == 44
\* sample rates drawn (Hz); the Nyquist frequency is half of each
MaxSampleRate == 40
SampleRates == {MaxSampleRate \div 2, MaxSampleRate}
\* the four shapes the switch names, and two values it does not name
Shapes == {"sine", "square", "triangle", "sawtooth", "custom", "piano"}
\* phases drawn (degrees), with Math.cos / Math.sin of each in thousandths
PhaseDegs == {0, 45}
CosMilli(deg) == CASE deg = 0 -> 1000 [] deg = 45 -> 707
SinMilli(deg) == CASE deg = 0 -> 0 [] deg = 45 -> 707

\* line 11: harmonic count when limitHarmonics is false
UnlimitedHarmonics == 256
\* line 14: least length of the coefficient arrays
MinArraySize == 8192

\* lines 9-11 with the ceiling at Nyquist instead of 0.9 * Nyquist
kMaxBeyondCeiling(sr, f0, limitHarmonics) ==
  IF limitHarmonics
    THEN Max(1, (sr * FreqDen) \div (2 * Max(FreqDen, f0)))
    ELSE UnlimitedHarmonics

\* lines 9-11: kMax = limit ? max(1, floor(0.9*(sr/2) / max(1, f0))) : 256
kMaxOf(sr, f0, limitHarmonics) ==
  IF limitHarmonics
    THEN Max(1, (9 * sr * FreqDen) \div (20 * Max(FreqDen, f0)))
    ELSE UnlimitedHarmonics

\* line 14: arraySize = max(kMax + 1, 8192)
arraySize(kMax) == Max(kMax + 1, MinArraySize)

\* lines 40-43 (61-64, 81-84): the factor the roll-off multiplies the amplitude by.
\* freq = n*f0 > 0.8*nyquist  <=>  5*n*f0 > 2*sr*FreqDen;
\* rolloff = 1 - (freq - 0.8*nyquist)/(0.2*nyquist) = 5*(sr*FreqDen - 2*n*f0)/(sr*FreqDen)
rolloff(sr, f0, n) ==
  IF 5 * n * f0 > 2 * sr * FreqDen
    THEN <<Max(0, 5 * (sr * FreqDen - 2 * n * f0)), sr * FreqDen>>
    ELSE <<1, 1>>

\* The closed-form scale of each shape (4/pi, 8/pi^2, 2/pi), times 10^5, rounded.
\* Amplitudes are kept as exact multiples of the scale of their shape.
ScaleE5(shape) ==
  CASE shape = "square" -> 127324
    [] shape = "triangle" -> 81057
    [] shape = "sawtooth" -> 63662
    [] OTHER -> 100000

\* lines 37, 55-58, 75-78: amplitude of harmonic n before the keep test, over scale
amplitude(shape, sr, f0, n) ==
  LET r == rolloff(sr, f0, n) IN
  CASE shape = "square" -> <<r[1], n * r[2]>>
    [] shape = "triangle" ->
         <<(IF ((n - 1) \div 2) % 2 = 0 THEN 1 ELSE -1) * r[1], n * n * r[2]>>
    [] shape = "sawtooth" ->
         <<(IF (n + 1) % 2 = 0 THEN 1 ELSE -1) * r[1], n * r[2]>>
    [] OTHER -> <<1, 1>>

\* lines 45, 66, 86: the test that guards addHarm
\* square: amplitude > 0; triangle, sawtooth: |amplitude| > 0.00001
keeps(shape, a) ==
  CASE shape = "square" -> a[1] > 0
    [] shape \in {"triangle", "sawtooth"} -> Abs(a[1]) * ScaleE5(shape) > a[2]
    [] OTHER -> TRUE

\* lines 25-96 with a switch that has no default branch
harmonicsNoFallback(shape, kMax) ==
  CASE shape \in {"square", "triangle"} -> {n \in 1..kMax : n % 2 = 1}
    [] shape = "sawtooth" -> 1..kMax
    [] shape = "sine" -> {1}
    [] OTHER -> {}

\* lines 33 and 54 with the loops stepping by 1 (n++ in place of n += 2)
harmonicsEveryN(shape, kMax) ==
  CASE shape \in {"square", "triangle", "sawtooth"} -> 1..kMax
    [] OTHER -> {1}

\* lines 25-96: the harmonic numbers the switch visits
harmonics(shape, kMax) ==
  CASE shape \in {"square", "triangle"} -> {n \in 1..kMax : n % 2 = 1}
    [] shape = "sawtooth" -> 1..kMax
    [] OTHER -> {1}

\* lines 15-16: new Float32Array(arraySize).  A typed array starts all zero and
\* the model stores the cells 0..kMax together with every cell addHarm wrote
\* (the function written) and the length; the other cells are the zero tail.
Float32Cells(length, written) == [length |-> length, cells |-> written]

\* arr[k] for 0 <= k < arr.length
At(arr, k) == IF k \in DOMAIN arr.cells THEN arr.cells[k] ELSE Zero

\* lines 6-98: the real and imag arrays handed to PeriodicWave
buildPeriodicWave(sampleRate, shape, f0, phaseDeg, limitHarmonics) ==
  LET kMax == kMaxOf(sampleRate, f0, limitHarmonics)
      size == arraySize(kMax)
      hs == {n \in harmonics(shape, kMax) :
               keeps(shape, amplitude(shape, sampleRate, f0, n))}
      coef(k, trig) ==
        IF k \in hs
          THEN LET a == amplitude(shape, sampleRate, f0, k)
               IN <<a[1] * trig, a[2] * 1000>>
          ELSE Zero
      cells == (0..kMax) \cup hs
  IN [kMax |-> kMax,
      real |-> Float32Cells(size, [k \in cells |-> coef(k, CosMilli(phaseDeg))]),
      imag |-> Float32Cells(size, [k \in cells |-> coef(k, SinMilli(phaseDeg))])]

InitOsc ==
  /\ pc = "call"
  /\ args \in [sampleRate : SampleRates, shape : Shapes, f0 : 1..MaxF0,
               phaseDeg : PhaseDegs, limitHarmonics : BOOLEAN]
  /\ ret = NoRet
  /\ heap = NoHeap
  /\ PageLoaded

BuildPeriodicWave ==
  /\ pc = "call"
  /\ pc' = "done"
  /\ ret' = buildPeriodicWave(args.sampleRate, args.shape, args.f0,
                              args.phaseDeg, args.limitHarmonics)
  /\ UNCHANGED <<args, heap, pageVars>>

NextOsc == BuildPeriodicWave

SpecOsc == InitOsc /\ [][NextOsc]_vars

\* harmonic k of the built spectrum carries no energy
Silent(k) == IsZero(At(ret.real, k)) /\ IsZero(At(ret.imag, k))
\* k*f0 > 0.9*(sr/2)
AboveCeiling(k) == 20 * k * args.f0 > 9 * args.sampleRate * FreqDen
\* k*f0 >= sr/2
AtOrAboveNyquist(k) == 2 * k * args.f0 >= args.sampleRate * FreqDen
OscDone == pc = "done" /\ args.limitHarmonics
StandardShape == args.shape \in {"sine", "square", "triangle", "sawtooth"}

\* C1 as stated: with limitHarmonics, every harmonic k of a standard shape with
\* k*f0 > 0.9*(sr/2) has real[k] = imag[k] = 0.
C1_AsStated ==
  (OscDone /\ StandardShape) =>
     \A k \in 0..(ret.real.length - 1) : AboveCeiling(k) => Silent(k)

\* C1 amended: with limitHarmonics, every harmonic k >= 2 of a standard shape with
\* k*f0 > 0.9*(sr/2) is zero, and for square, triangle and sawtooth no harmonic at
\* all with k*f0 >= sr/2 is nonzero; the fundamental (k = 1) is exempt from the
\* ceiling because kMax is at least 1.
C1_BandLimited ==
  (OscDone /\ StandardShape) =>
     \A k \in 0..(ret.real.length - 1) :
        /\ (k >= 2 /\ AboveCeiling(k)) => Silent(k)
        /\ (args.shape # "sine" /\ AtOrAboveNyquist(k)) => Silent(k)

\* a sawtooth whose top kept harmonic k >= 2 sits in the roll-off band, the
\* next harmonic lying above the ceiling and left at zero
C1_Witness ==
  /\ OscDone
  /\ args.shape = "sawtooth"
  /\ \E k \in 2..ret.kMax :
        /\ ~Silent(k)
        /\ 5 * k * args.f0 > 2 * args.sampleRate * FreqDen
        /\ AboveCeiling(k + 1)
        /\ Silent(k + 1)

\* C11: for a shape outside {sine, square, triangle, sawtooth} the call returns
\* (no error) exactly the arrays built for "sine" with the same frequency, phase
\* and sample rate: harmonic 1 holds amplitude 1 at the phase (cos, sin) and
\* every other index is zero.
C11_UnknownShapeIsSine ==
  (pc = "done" /\ ~StandardShape) =>
     LET sine == buildPeriodicWave(args.sampleRate, "sine", args.f0,
                                   args.phaseDeg, args.limitHarmonics)
     IN /\ ret = sine
        /\ RatEq(At(ret.real, 1), <<CosMilli(args.phaseDeg), 1000>>)
        /\ RatEq(At(ret.imag, 1), <<SinMilli(args.phaseDeg), 1000>>)
        /\ \A k \in 0..(ret.real.length - 1) : k # 1 => Silent(k)

\* the shape "piano" handed to the function with a fundamental above Nyquist and
\* a phase of 45 degrees: harmonic 1 is set in both arrays
C11_Witness ==
  /\ pc = "done"
  /\ args.shape = "piano"
  /\ 2 * args.f0 > args.sampleRate * FreqDen
  /\ ~IsZero(At(ret.real, 1)) /\ ~IsZero(At(ret.imag, 1))

\* k > max(1, floor(0.9*(sr/2) / max(1, f0))), or k > 256 without the limit
AboveKMax(k) ==
  IF args.limitHarmonics
    THEN k > 1 /\ 20 * k * Max(FreqDen, args.f0) > 9 * args.sampleRate * FreqDen
    ELSE k > 256

\* C20: index 0 (DC) is zero; for sine no index but 1 is nonzero; for square and
\* triangle every even index is zero; for every shape no index above
\* kMax = max(1, floor(0.9*(sr/2) / max(1, f0))) (256 when limitHarmonics is
\* false) is nonzero.
C20_CoefficientStructure ==
  pc = "done" =>
     /\ Silent(0)
     /\ ret.real.length = ret.imag.length
     /\ \A k \in 0..(ret.real.length - 1) :
           /\ (args.shape = "sine" /\ k # 1) => Silent(k)
           /\ (args.shape \in {"square", "triangle"} /\ k % 2 = 0) => Silent(k)
           /\ AboveKMax(k) => Silent(k)

\* a square of at least four harmonics below the roll-off band: harmonics 1 and 3
\* are set, 2 and 4 are not
C20_Witness ==
  /\ pc = "done"
  /\ args.shape = "square"
  /\ args.limitHarmonics
  /\ ret.kMax >= 4
  /\ ~Silent(1) /\ ~Silent(3)
  /\ Silent(2) /\ Silent(4)

\* The harmonics addHarm is called for (lines 25-96): the indices the loops
\* write, without the values written.  A sample rate in the thousands puts
\* harmonics of the unlimited spectrum (kMax = 256) within a few Hz of Nyquist,
\* where the roll-off leaves amplitudes near 1e-5; the calls drawn are those
\* without the harmonic limit.
FineRate == 6400

addedHarmonics(sampleRate, shape, f0, limitHarmonics) ==
  LET kMax == kMaxOf(sampleRate, f0, limitHarmonics)
  IN [kMax |-> kMax,
      added |-> {n \in harmonics(shape, kMax) :
                   keeps(shape, amplitude(shape, sampleRate, f0, n))}]

InitFine ==
  /\ pc = "call"
  /\ args \in [sampleRate : {FineRate}, shape : {"square", "triangle", "sawtooth"},
               f0 : 1..MaxF0, limitHarmonics : {FALSE}]
  /\ ret = NoRet
  /\ heap = NoHeap
  /\ PageLoaded

AddHarmonics ==
  /\ pc = "call"
  /\ pc' = "done"
  /\ ret' = addedHarmonics(args.sampleRate, args.shape, args.f0, args.limitHarmonics)
  /\ UNCHANGED <<args, heap, pageVars>>

NextFine == AddHarmonics

SpecFine == InitFine /\ [][NextFine]_vars

\* |amplitude| < 0.00001, the amplitude a being held over the scale of its shape
BelowThreshold(shape, a) == Abs(a[1]) * ScaleE5(shape) < a[2]

\* C21, as stated: for square, triangle and sawtooth, a harmonic whose amplitude
\* after the roll-off is below 1e-5 in absolute value is not written.
C21_AsStated ==
  pc = "done" =>
     \A n \in 1..ret.kMax :
        BelowThreshold(args.shape, amplitude(args.shape, args.sampleRate, args.f0, n))
          => n \notin ret.added

(* ------------------------------------------------------------------ *)
(* createPianoSound, createViolinSound (audio-engine.js 102-210)       *)
(* ------------------------------------------------------------------ *)

\* Math.random is a generator whose seed the program cannot observe: a call
\* sequence is one of RandomMod streams, the k-th call (k = 1, 2, ...) of the
\* stream of seed s returning ((s + k) mod RandomMod) / RandomMod in [0, 1).
RandomMod == 3
Seeds == 0..(RandomMod - 1)
MathRandom(seed, k) == <<(seed + k) % RandomMod, RandomMod>>

\* lines 104, 150: samples = Math.floor(duration * sampleRate)
samplesOf(duration, sampleRate) == (duration[1] * sampleRate) \div duration[2]

\* lines 102-145.  No statement of the function consults Math.random; the
\* buffer is written as the call that filled it (envelope and sines are not
\* evaluated).
createPianoSound(sampleRate, frequency, duration, amp) ==
  [length |-> samplesOf(duration, sampleRate),
   sampleRate |-> sampleRate,
   voice |-> "piano",
   frequency |-> frequency,
   amplitude |-> amp,
   data |-> <<>>]

\* lines 163-174: the harmonic table of the violin, amplitudes in hundredths
violinHarmonics ==
  <<[ratio |-> 1, amp |-> 100], [ratio |-> 2, amp |-> 45],
    [ratio |-> 3, amp |-> 30], [ratio |-> 4, amp |-> 25],
    [ratio |-> 5, amp |-> 18], [ratio |-> 6, amp |-> 12],
    [ratio |-> 7, amp |-> 8], [ratio |-> 8, amp |-> 6],
    [ratio |-> 9, amp |-> 4], [ratio |-> 10, amp |-> 3]>>

\* line 181: phaseOffsets = harmonics.map(() => Math.random() * 2 * Math.PI),
\* in turns (fractions of 2*pi); the map consumes the calls first+1 .. first+10
phaseOffsetsOf(seed, first) ==
  [j \in 1..Len(violinHarmonics) |-> MathRandom(seed, first + j)]

\* line 201: t < 0.1 for sample i (0-based), t = i / sampleRate
inAttackNoise(i, sampleRate) == 10 * i < sampleRate

\* line 197 with the offset taken from a fresh Math.random call in every sample
\* (the call after the draws the sample's own noise may use)
phaseRedrawn(phaseOffsets, j, seed, drawn) == MathRandom(seed, drawn + j)

\* line 197: the offset added to the phase of harmonic j is phaseOffsets[j];
\* no call of Math.random is made for it (seed and drawn, the generator and
\* the calls made so far, are not read)
phaseUsed(phaseOffsets, j, seed, drawn) == phaseOffsets[j]

\* line 202: (Math.random() - 0.5) * 0.02 * (1 - t * 10), r the value drawn
bowNoise(r, i, sampleRate) ==
  <<(2 * r[1] - r[2]) * (sampleRate - 10 * i), 2 * r[2] * 50 * sampleRate>>

\* lines 183-207: what sample i (0-based) is computed from, when drawn calls
\* of Math.random have been made before it: the phase offset of each harmonic,
\* the bow noise, and the calls of Math.random the sample made
violinSample(phaseOffsets, i, sampleRate, seed, drawn) ==
  LET noisy == inAttackNoise(i, sampleRate)
  IN [t |-> <<i, sampleRate>>,
      phase |-> [j \in 1..Len(violinHarmonics) |->
                   phaseUsed(phaseOffsets, j, seed, drawn)],
      noise |-> IF noisy
                  THEN bowNoise(MathRandom(seed, drawn + 1), i, sampleRate)
                  ELSE Zero,
      randomCalls |-> IF noisy THEN 1 ELSE 0]

\* the calls of Math.random made by the samples 0 .. i-1
RECURSIVE noiseCallsBefore(_, _)
noiseCallsBefore(i, sampleRate) ==
  IF i = 0 THEN 0
  ELSE noiseCallsBefore(i - 1, sampleRate)
         + (IF inAttackNoise(i - 1, sampleRate) THEN 1 ELSE 0)

\* lines 148-210.  first is the number of Math.random calls made before this
\* one; the sum of sines and the envelope of line 206 are not evaluated: a
\* sample is held as what it is computed from.
createViolinSound(sampleRate, frequency, duration, amp, seed, first) ==
  LET samples == samplesOf(duration, sampleRate)
      phaseOffsets == phaseOffsetsOf(seed, first)
      afterPhases == first + Len(violinHarmonics)
      data == [i \in 1..samples |->
                 violinSample(phaseOffsets, i - 1, sampleRate, seed,
                              afterPhases + noiseCallsBefore(i - 1, sampleRate))]
  IN [length |-> samples,
      sampleRate |-> sampleRate,
      voice |-> "violin",
      frequency |-> frequency,
      amplitude |-> amp,
      phaseOffsets |-> phaseOffsets,
      data |-> data,
      randomCalls |-> Len(violinHarmonics) + noiseCallsBefore(samples, sampleRate)]

\* durations drawn (seconds): none, a fifth and a quarter of a second
Durations == {<<0, 1>>, <<1, 5>>, <<1, 4>>}

InitViolin ==
  /\ pc = "call"
  /\ args \in [sampleRate : SampleRates, frequency : 1..MaxF0,
               duration : Durations, amplitude : {<<4, 5>>}]
  /\ ret = NoRet
  /\ heap = NoHeap
  /\ PageLoaded

CreateViolinSound ==
  /\ pc = "call"
  /\ pc' = "done"
  /\ \E seed \in Seeds :
       ret' = createViolinSound(args.sampleRate, args.frequency, args.duration,
                                args.amplitude, seed, 0)
  /\ UNCHANGED <<args, heap, pageVars>>

NextViolin == CreateViolinSound

SpecViolin == InitViolin /\ [][NextViolin]_vars

\* C16: in one createViolinSound call the phase offsets are drawn exactly once
\* and before the first sample: they are the first ten values of the call's
\* random stream, the only other calls of Math.random are the one bow-noise call
\* of each sample with t < 0.1, and the offset used for harmonic j is the same
\* value, phaseOffsets[j], at every sample index.
C16_PhaseOffsetsDrawnOnce ==
  pc = "done" =>
     LET H == 1..Len(violinHarmonics)
         noisy == {i \in 1..ret.length : 10 * (i - 1) < args.sampleRate}
     IN /\ DOMAIN ret.phaseOffsets = H
        /\ \E seed \in Seeds : \A j \in H : ret.phaseOffsets[j] = MathRandom(seed, j)
        /\ ret.randomCalls = Len(violinHarmonics) + Cardinality(noisy)
        /\ \A i \in 1..ret.length :
              /\ ret.data[i].randomCalls = (IF i \in noisy THEN 1 ELSE 0)
              /\ \A j \in H : ret.data[i].phase[j] = ret.phaseOffsets[j]
        /\ \A i1, i2 \in 1..ret.length :
              \A j \in H : ret.data[i1].phase[j] = ret.data[i2].phase[j]

\* a call of several samples, some with bow noise and some after it, whose
\* harmonics do not all share one offset
C16_Witness ==
  /\ pc = "done"
  /\ ret.length >= 4
  /\ \E i \in 1..ret.length : ret.data[i].randomCalls = 1
  /\ \E i \in 1..ret.length : ret.data[i].randomCalls = 0
  /\ \E j1, j2 \in 1..Len(violinHarmonics) :
        ret.data[ret.length].phase[j1] # ret.data[1].phase[j2]

(* ------------------------------------------------------------------ *)
(* renderOfflineFromWaves (audio-engine.js 213-284)                    *)
(* ------------------------------------------------------------------ *)

\* Math.max / Math.min / clamp on rationals
RatMax(a, b) == IF RatLt(a, b) THEN b ELSE a
RatMin(a, b) == IF RatLt(b, a) THEN b ELSE a
clampQ(x, lo, hi) == RatMin(hi, RatMax(lo, x))

\* Math.ceil of a non-negative rational
MathCeil(r) == -((-r[1]) \div r[2])

\* longest waveform list drawn
MaxWaves == 2
InstrumentTypes == {"piano", "violin"}
StandardShapes == {"sine", "square", "triangle", "sawtooth"}
\* amplitudes drawn: negative, zero, positive
RenderAmps == {<<-1, 2>>, <<0, 1>>, <<1, 2>>}
\* frequencies drawn, in units of 1/FreqDen Hz: below 1 Hz, 3 Hz, a frequency
\* between 0.9 * Nyquist and Nyquist of the lower rate drawn, and MaxF0, which
\* is above the Nyquist frequency of every rate drawn
RenderFreqs == {1, 3 * FreqDen, MaxSampleRate \div 2 - 1, MaxF0}
\* The waveforms drawn: one audible waveform of 3 Hz of each type; sines and
\* squares of the other frequencies; sines and violins of the other amplitudes.
RenderWaves ==
  {w \in [type : StandardShapes \cup InstrumentTypes, amp : RenderAmps,
          freq : RenderFreqs, phaseDeg : {0}] :
     \/ w.freq = 3 * FreqDen /\ w.amp = <<1, 2>>
     \/ w.amp = <<1, 2>> /\ w.type \in {"sine", "square"}
     \/ w.freq = 3 * FreqDen /\ w.type \in {"sine", "violin"}}
WaveLists == UNION {[1..len -> RenderWaves] : len \in 0..MaxWaves}
\* filters drawn: none, a low-pass without cutoff, and a type the renderer ignores
Filters == {NullRef, [type |-> "lowpass", cutoff |-> 0],
            [type |-> "notch", cutoff |-> 5]}

\* lines 222-230: the BiquadFilterNode put before the destination, or none
biquadOf(filter, sampleRate) ==
  IF filter # NullRef /\ filter.type \in {"lowpass", "highpass"}
    THEN [type |-> filter.type,
          frequency |-> clampQ(<<IF filter.cutoff = 0 THEN 18000 ELSE filter.cutoff, 1>>,
                               <<10, 1>>, <<sampleRate - 20, 2>>),
          Q |-> <<707, 1000>>]
    ELSE NullRef

\* line 234 with a strict comparison (w.amp < 0)
skipsNegativeOnly(w) == w.amp[1] < 0

\* line 234: if (w.amp <= 0) continue
skips(w) == w.amp[1] <= 0

\* lines 236-260 with every waveform taken for a violin
voiceKindAllViolin(type) == "violin"

\* lines 236-260: the branch a waveform type takes
voiceKind(type) ==
  CASE type = "piano" -> "piano"
    [] type = "violin" -> "violin"
    [] OTHER -> "oscillator"

\* line 264 without the clamp
oscFrequencyUnclamped(freq, sampleRate) == <<freq, FreqDen>>

\* line 264 with the clamp's ceiling at sampleRate / 2
oscFrequencyToNyquist(freq, sampleRate) ==
  clampQ(<<freq, FreqDen>>, <<1, 1>>, <<sampleRate, 2>>)

\* line 264: frequency: clamp(w.freq, 1, sampleRate / 2 - 1), w.freq in units
\* of 1/FreqDen Hz
oscFrequency(freq, sampleRate) ==
  clampQ(<<freq, FreqDen>>, <<1, 1>>, <<sampleRate - 2, 2>>)

\* lines 236-279: the source node built for waveform i of the list and the
\* calls of Math.random its construction made; drawn calls were made before
voiceOf(w, i, duration, sampleRate, antiAlias, seed, drawn) ==
  LET kind == voiceKind(w.type)
      buffer == IF kind = "piano"
                  THEN createPianoSound(sampleRate, w.freq, duration, w.amp)
                  ELSE createViolinSound(sampleRate, w.freq, duration, w.amp,
                                         seed, drawn)
  IN IF kind = "oscillator"
       THEN [wave |-> i,
             node |-> "OscillatorNode",
             frequency |-> oscFrequency(w.freq, sampleRate),
             periodicWave |-> buildPeriodicWave(sampleRate, w.type, w.freq,
                                                w.phaseDeg, antiAlias),
             buffer |-> NullRef,
             loop |-> FALSE,
             loopEnd |-> 0,
             gain |-> w.amp,
             start |-> Zero,
             stop |-> duration,
             randomCalls |-> 0]
       ELSE [wave |-> i,
             node |-> "AudioBufferSourceNode",
             frequency |-> Zero,
             periodicWave |-> NullRef,
             buffer |-> buffer,
             loop |-> TRUE,
             loopEnd |-> IF kind = "piano" THEN 1 ELSE 0,
             gain |-> <<1, 1>>,
             start |-> Zero,
             stop |-> duration,
             randomCalls |-> IF kind = "piano" THEN 0 ELSE buffer.randomCalls]

\* lines 233-280: the loop over the waveforms from index i on; drawn calls of
\* Math.random were made before it
RECURSIVE buildVoices(_, _, _, _, _, _, _)
buildVoices(waves, i, duration, sampleRate, antiAlias, seed, drawn) ==
  IF i > Len(waves)
    THEN [voices |-> <<>>, randomCalls |-> drawn]
    ELSE IF skips(waves[i])
      THEN buildVoices(waves, i + 1, duration, sampleRate, antiAlias, seed, drawn)
      ELSE LET v == voiceOf(waves[i], i, duration, sampleRate, antiAlias, seed, drawn)
               rest == buildVoices(waves, i + 1, duration, sampleRate, antiAlias,
                                   seed, drawn + v.randomCalls)
           IN [voices |-> <<v>> \o rest.voices, randomCalls |-> rest.randomCalls]

\* lines 213-284: the graph handed to startRendering: the context's length and
\* rate, the filter before the destination (or none), and the sources connected
\* to the mix, in the order they were connected.  The rendering itself (the
\* browser's) is not evaluated: the mix of no source is silence.
renderOfflineFromWaves(duration, sampleRate, waves, antiAliasMaxHarmonics, filter, seed) ==
  LET built == buildVoices(waves, 1, duration, sampleRate, antiAliasMaxHarmonics,
                           seed, 0)
  IN [length |-> MathCeil(<<duration[1] * sampleRate, duration[2]>>),
      sampleRate |-> sampleRate,
      filter |-> biquadOf(filter, sampleRate),
      voices |-> built.voices,
      silent |-> built.voices = <<>>,
      randomCalls |-> built.randomCalls]

InitRender ==
  /\ pc = "call"
  /\ args \in [duration : {<<1, 5>>}, sampleRate : SampleRates,
               waves : WaveLists, antiAliasMaxHarmonics : {TRUE},
               filter : Filters]
  /\ ret = NoRet
  /\ heap = NoHeap
  /\ PageLoaded

\* a call of renderOfflineFromWaves
RenderOfflineFromWaves ==
  /\ pc = "call"
  /\ pc' = "done"
  /\ \E seed \in Seeds :
       ret' = renderOfflineFromWaves(args.duration, args.sampleRate, args.waves,
                                     args.antiAliasMaxHarmonics, args.filter, seed)
  /\ UNCHANGED <<args, heap, pageVars>>

\* a second call with the same arguments
RenderAgain ==
  /\ pc = "done"
  /\ pc' = "again"
  /\ \E seed \in Seeds :
       ret' = renderOfflineFromWaves(args.duration, args.sampleRate, args.waves,
                                     args.antiAliasMaxHarmonics, args.filter, seed)
  /\ UNCHANGED <<args, heap, pageVars>>

NextRender == RenderOfflineFromWaves \/ RenderAgain

SpecRender == InitRender /\ [][NextRender]_vars

Rendered == pc \in {"done", "again"}
WaveIdx == 1..Len(args.waves)

\* C12: no source is created for a waveform with amp <= 0: the sources
\* connected to the mix are, in order and one each, the waveforms with amp > 0,
\* and a list whose waveforms all have amp <= 0 renders silence.
C12_SkipsNonPositiveAmp ==
  Rendered =>
     LET audible == {i \in WaveIdx : args.waves[i].amp[1] > 0}
         V == 1..Len(ret.voices)
     IN /\ {ret.voices[n].wave : n \in V} = audible
        /\ Len(ret.voices) = Cardinality(audible)
        /\ \A n, m \in V : n < m => ret.voices[n].wave < ret.voices[m].wave
        /\ (audible = {}) => (ret.voices = <<>> /\ ret.silent)

\* a list of two waveforms, the first of negative amplitude and the second
\* audible: one source, for the second
C12_Witness ==
  /\ Rendered
  /\ Len(args.waves) = 2
  /\ args.waves[1].amp[1] < 0
  /\ Len(ret.voices) = 1
  /\ ret.voices[1].wave = 2

\* C13: the oscillator of every standard-shape waveform runs at the configured
\* frequency clamped to [1, sampleRate/2 - 1] Hz: 1 Hz below the range,
\* sampleRate/2 - 1 above it, the configured frequency inside it.
C13_FrequencyClamped ==
  Rendered =>
     \A n \in 1..Len(ret.voices) :
        LET w == args.waves[ret.voices[n].wave]
            f == <<w.freq, FreqDen>>
            lo == <<1, 1>>
            hi == <<args.sampleRate - 2, 2>>
            run == ret.voices[n].frequency
        IN (w.type \in StandardShapes) =>
              /\ ret.voices[n].node = "OscillatorNode"
              /\ RatLt(f, lo) => RatEq(run, lo)
              /\ RatLt(hi, f) => RatEq(run, hi)
              /\ (RatLe(lo, f) /\ RatLe(f, hi)) => RatEq(run, f)

\* a square below 1 Hz next to a sine above Nyquist, both audible
C13_Witness ==
  /\ Rendered
  /\ Len(ret.voices) = 2
  /\ args.waves[1].type = "square" /\ args.waves[1].freq < FreqDen
  /\ args.waves[2].type = "sine" /\ 2 * args.waves[2].freq > args.sampleRate * FreqDen
  /\ RatEq(ret.voices[1].frequency, <<1, 1>>)
  /\ RatLt(ret.voices[2].frequency, <<args.waves[2].freq, FreqDen>>)

StandardOnly == \A i \in WaveIdx : args.waves[i].type \in StandardShapes

\* C14: a second run with the same duration, sample rate and list of standard
\* shapes returns what the first returned, and neither run calls Math.random.
C14_Deterministic ==
  /\ [][(pc = "done" /\ pc' = "again" /\ StandardOnly) => ret' = ret]_vars
  /\ []((Rendered /\ StandardOnly) => ret.randomCalls = 0)

\* the second run of a list of two audible standard shapes
C14_Witness ==
  /\ pc = "again"
  /\ StandardOnly
  /\ Len(ret.voices) = 2
  /\ ret.voices[1].periodicWave # ret.voices[2].periodicWave

\* the harmonic indices of a PeriodicWave with a nonzero coefficient (the cells
\* that are not stored are the zero tail)
NonzeroHarmonics(pw) ==
  {k \in DOMAIN pw.real.cells : ~IsZero(At(pw.real, k)) \/ ~IsZero(At(pw.imag, k))}

\* C22: with antiAliasMaxHarmonics and a sample rate of at least 4 Hz, every
\* harmonic k with a nonzero coefficient in the spectrum of a standard-shape
\* oscillator plays below Nyquist at the frequency the oscillator runs at:
\* k * clamp(w.freq, 1, sampleRate/2 - 1) < sampleRate/2, although the spectrum
\* was built from the unclamped w.freq.
C22_PlayedBelowNyquist ==
  (Rendered /\ args.antiAliasMaxHarmonics /\ args.sampleRate >= 4) =>
     \A n \in 1..Len(ret.voices) :
        LET v == ret.voices[n]
            w == args.waves[v.wave]
        IN (w.type \in StandardShapes) =>
              /\ RatEq(v.frequency,
                       clampQ(<<w.freq, FreqDen>>, <<1, 1>>, <<args.sampleRate - 2, 2>>))
              /\ \A k \in NonzeroHarmonics(v.periodicWave) :
                    2 * k * v.frequency[1] < args.sampleRate * v.frequency[2]

\* a sine configured above Nyquist, whose harmonic 1 is set and played at
\* sampleRate/2 - 1, next to a square configured below 1 Hz, whose spectrum
\* reaches beyond harmonic 3 and is played at 1 Hz
C22_Witness ==
  /\ Rendered
  /\ Len(ret.voices) = 2
  /\ args.waves[1].type = "sine"
  /\ 2 * args.waves[1].freq > args.sampleRate * FreqDen
  /\ 1 \in NonzeroHarmonics(ret.voices[1].periodicWave)
  /\ args.waves[2].type = "square"
  /\ args.waves[2].freq < FreqDen
  /\ \E k \in NonzeroHarmonics(ret.voices[2].periodicWave) : k > 3

(* ------------------------------------------------------------------ *)
(* Math.log and Math.pow in binary fixed point                         *)
(* ------------------------------------------------------------------ *)

\* One in fixed point: a real v is held as the integer floor(v * FP).
FP == 2^14
\* ln 2 in fixed point
Ln2Fix == (6931 * FP) \div 10000

\* floor(log2(n/d)) for n >= d > 0
RECURSIVE FloorLog2(_, _)
FloorLog2(n, d) == IF n < 2 * d THEN 0 ELSE 1 + FloorLog2(n, 2 * d)

\* the fractional bits of log2(z/FP), FP <= z < 2*FP, by repeated squaring
RECURSIVE FracLog2(_, _)
FracLog2(z, i) ==
  IF 2^i > FP THEN 0
  ELSE LET sq == (z * z) \div FP
       IN IF sq >= 2 * FP
            THEN FP \div (2^i) + FracLog2(sq \div 2, i + 1)
            ELSE FracLog2(sq, i + 1)

\* log2(n/d) in fixed point, n >= d > 0
Log2Fix(n, d) ==
  LET e == FloorLog2(n, d)
  IN e * FP + FracLog2((n * FP) \div (d * (2^e)), 1)

\* Math.log(n/d) in fixed point, n >= d > 0
MathLog(n, d) == (Log2Fix(n, d) * Ln2Fix) \div FP

\* exp(t/FP) in fixed point for 0 <= t < FP, by its Taylor series: the terms
\* from t^k/k! on
RECURSIVE ExpTail(_, _, _)
ExpTail(t, term, k) ==
  IF term = 0 THEN 0 ELSE term + ExpTail(t, (term * t) \div (k * FP), k + 1)

\* Math.pow(base, en/ed) in fixed point, base a power of two, 0 <= en/ed
MathPow(base, en, ed) ==
  LET bits2 == FloorLog2(base, 1)
      whole == (bits2 * en) \div ed
      part == (bits2 * en) % ed
      t == (part * Ln2Fix) \div ed
  IN (2^whole) * ExpTail(t, FP, 1)

(* ------------------------------------------------------------------ *)
(* quantizeBuffer (audio-engine.js 287-343)                            *)
(* ------------------------------------------------------------------ *)

\* Input samples are multiples of 1/XDen in [-MaxX/XDen, MaxX/XDen].
XDen == 2
MaxX == 3
\* longest input buffer drawn
MaxLen == 2
\* Math.random() + Math.random() - 1 lies in [-1, 1): drawn as rn/RDen
RDen == 1
XSet == {<<n, XDen>> : n \in (-MaxX)..MaxX}
Buffers == UNION {[1..len -> XSet] : len \in 0..MaxLen}
\* bit depths drawn: the three the interface offers and two it does not
BitDepths == {4, 8, 12, 16, 24}
\* compression labels: "None", or one that starts with the letter mu
Compressions == {"None", "mu-law"}
startsWithMu(compression) == compression = "mu-law"

\* Math.round: the nearest integer, ties toward +Infinity
MathFloor(r) == r[1] \div r[2]
MathRound(r) == (2 * r[1] + r[2]) \div (2 * r[2])

\* clamp(x, lo, hi) for a rational x and integers lo <= hi
clampRat(x, lo, hi) == <<clamp(x[1], lo * x[2], hi * x[2]), x[2]>>

\* no typed array (null)
Null == [type |-> "null", data |-> <<>>]

\* the value a typed array of the given element type holds after arr[i] = q
\* (ToInt8 / ToInt16 wrap modulo 2^width; every integer of the model fits 32 bits)
stored(type, q) ==
  CASE type = "Int8Array" -> ((q + 128) % 256) - 128
    [] type = "Int16Array" -> ((q + 32768) % 65536) - 32768
    [] type = "Uint8Array" -> q % 256
    [] OTHER -> q

\* line 301-303: the mu-law code of a clamped sample x
muLawEncode(x, mu) ==
  LET sign == IF x[1] < 0 THEN -1 ELSE 1
      ax == RatAbs(x)
      \* y = sign * Math.log(1 + mu*|x|) / Math.log(1 + mu)
      y == <<sign * MathLog(ax[2] + mu * ax[1], ax[2]), MathLog(1 + mu, 1)>>
      \* val = Math.round((y + 1) * 127.5)
      val == MathRound(<<(y[1] + y[2]) * 255, 2 * y[2]>>)
  IN stored("Uint8Array", clamp(val, 0, 255))

\* line 341 without the subtraction of 1
expandNoOffset(pow, mu) == <<pow, mu * FP>>

\* line 341: (Math.pow(1 + mu, ay) - 1) / mu, pow in fixed point
expand(pow, mu) == <<pow - FP, mu * FP>>

\* lines 338-343: signMuLawInverse(y, mu), y = <<yn, yd>>
signMuLawInverse(y, mu) ==
  LET sign == IF y[1] < 0 THEN -1 ELSE 1
      ay == RatAbs(y)
      e == expand(MathPow(1 + mu, ay[1], ay[2]), mu)
  IN clampRat(<<sign * e[1], e[2]>>, -1, 1)

\* line 304-305: the float a mu-law code decodes to; yDec = code/127.5 - 1
muLawDecode(code, mu) == signMuLawInverse(<<2 * code - 255, 255>>, mu)

\* a - b for rationals
RatSub(a, b) == <<a[1] * b[2] - b[1] * a[2], a[2] * b[2]>>

\* line 309 with the assignment pcm = ulaw left out
pcmUnset(ulaw) == Null

\* line 309: pcm = ulaw
pcmOfULaw(ulaw) == ulaw

\* lines 294-311: the mu-law branch
quantizeMuLaw(xFloat) ==
  LET N == Len(xFloat)
      mu == 255
      x == [i \in 1..N |-> clampRat(xFloat[i], -1, 1)]
      ulaw == [type |-> "Uint8Array",
               data |-> [i \in 1..N |-> muLawEncode(x[i], mu)]]
      xRec == [i \in 1..N |-> muLawDecode(ulaw.data[i], mu)]
  IN [qFloat |-> xRec,
      errFloat |-> [i \in 1..N |-> RatSub(x[i], xRec[i])],
      pcm |-> pcmOfULaw(ulaw),
      encLabel |-> <<"mu-law8">>,
      ulaw |-> ulaw,
      error |-> "none"]

\* line 314: peak = Math.pow(2, bits - 1) - 1
peakOf(bits) == 2^(bits - 1) - 1

\* lines 317-319 with an Int16Array as the fallback
arrayTypeNarrow(bits) ==
  CASE bits = 8 -> "Int8Array" [] OTHER -> "Int16Array"

\* lines 317-319: the element type of the code array
arrayType(bits) ==
  CASE bits = 8 -> "Int8Array" [] bits = 16 -> "Int16Array" [] OTHER -> "Int32Array"

\* lines 322-327 without the clamp that follows the dither (line 326)
ditheredStepsUnclamped(x, peak, dither, noise) ==
  LET v == clampRat(x, -1, 1)
  IN IF dither
       THEN <<v[1] * peak * RDen + noise * v[2], v[2] * RDen>>
       ELSE <<v[1] * peak, v[2]>>

\* lines 322-327: the sample in steps (v * peak) after the clamp, the dither
\* noise noise/RDen steps and the second clamp
ditheredSteps(x, peak, dither, noise) ==
  LET v == clampRat(x, -1, 1)
  IN IF dither
       THEN clampRat(<<v[1] * peak * RDen + noise * v[2], v[2] * RDen>>, -peak, peak)
       ELSE <<v[1] * peak, v[2]>>

\* line 328 with Math.floor in place of Math.round
quantizeFloor(steps) == MathFloor(steps)

\* line 328: q = Math.round(v * peak)
quantizeRound(steps) == MathRound(steps)

\* lines 313-335: the linear PCM branch; noise[i]/RDen is the i-th value of
\* Math.random() + Math.random() - 1
quantizeLinear(xFloat, bits, dither, noise) ==
  LET N == Len(xFloat)
      peak == peakOf(bits)
      type == arrayType(bits)
      s == [i \in 1..N |-> ditheredSteps(xFloat[i], peak, dither, noise[i])]
      q == [i \in 1..N |-> quantizeRound(s[i])]
  IN [qFloat |-> [i \in 1..N |-> <<q[i], peak>>],
      errFloat |-> [i \in 1..N |-> <<s[i][1] - q[i] * s[i][2], s[i][2] * peak>>],
      pcm |-> [type |-> type, data |-> [i \in 1..N |-> stored(type, q[i])]],
      encLabel |-> <<bits, "-bit PCM">>,
      ulaw |-> Null,
      error |-> "none"]

\* lines 287-336
quantizeBuffer(xFloat, bits, dither, compression, noise) ==
  IF startsWithMu(compression)
    THEN quantizeMuLaw(xFloat)
    ELSE quantizeLinear(xFloat, bits, dither, noise)

InitQuant ==
  /\ pc = "call"
  /\ args \in [xFloat : Buffers, bits : BitDepths, dither : BOOLEAN,
               compression : Compressions]
  /\ ret = NoRet
  /\ heap = NoHeap
  /\ PageLoaded

\* line 325: Math.random is consulted twice per sample, in linear PCM mode with
\* dither on only; elsewhere no noise is drawn
noises(xFloat, dither, compression) ==
  IF dither /\ ~startsWithMu(compression)
    THEN [1..Len(xFloat) -> (-RDen)..(RDen - 1)]
    ELSE {[i \in 1..Len(xFloat) |-> 0]}

QuantizeBuffer ==
  /\ pc = "call"
  /\ pc' = "done"
  /\ \E noise \in noises(args.xFloat, args.dither, args.compression) :
       ret' = quantizeBuffer(args.xFloat, args.bits, args.dither,
                             args.compression, noise)
  /\ UNCHANGED <<args, heap, pageVars>>

NextQuant == QuantizeBuffer

SpecQuant == InitQuant /\ [][NextQuant]_vars

QuantDone == pc = "done"
LinearMode == ~startsWithMu(args.compression)
Samples == 1..Len(args.xFloat)

\* C2: in linear PCM mode with dither off, for every sample, with
\* v = clamp(x, -1, 1) and peak = 2^(bits-1) - 1: the code is round(v*peak)
\* (v*peak - 1/2 < code <= v*peak + 1/2), the reconstructed value is code/peak,
\* the error is v - code/peak and |error| <= 1/(2*peak); a zero sample at 16
\* bits has an error within 1/(2*(2^15-1)) of 0.
C2_LinearRoundTrip ==
  (QuantDone /\ LinearMode /\ ~args.dither) =>
     \A i \in Samples :
        LET v == clampRat(args.xFloat[i], -1, 1)
            peak == 2^(args.bits - 1) - 1
            code == ret.pcm.data[i]
            err == ret.errFloat[i]
        IN /\ 2 * v[1] * peak - v[2] < 2 * code * v[2]
           /\ 2 * code * v[2] <= 2 * v[1] * peak + v[2]
           /\ RatEq(ret.qFloat[i], <<code, peak>>)
           /\ err[1] * v[2] * peak = (v[1] * peak - code * v[2]) * err[2]
           /\ 2 * Abs(err[1]) * peak <= err[2]
           /\ (args.bits = 16 /\ v[1] = 0) => RatLe(RatAbs(err), <<1, 2 * (2^15 - 1)>>)

\* a 16-bit call without dither on a buffer holding a zero sample and a sample
\* that does not fall on a quantization level
C2_Witness ==
  /\ QuantDone /\ LinearMode /\ ~args.dither /\ args.bits = 16
  /\ \E i \in Samples : args.xFloat[i][1] = 0 /\ IsZero(ret.errFloat[i])
  /\ \E i \in Samples : ~IsZero(ret.errFloat[i])

\* C3: in every mode, qFloat, errFloat and pcm each have exactly N elements,
\* N the length of the input.
C3_Lengths ==
  QuantDone =>
     /\ Len(ret.qFloat) = Len(args.xFloat)
     /\ Len(ret.errFloat) = Len(args.xFloat)
     /\ ret.pcm.type # "null"
     /\ Len(ret.pcm.data) = Len(args.xFloat)

\* a mu-law call on a buffer of the greatest length drawn
C3_Witness ==
  /\ QuantDone /\ ~LinearMode
  /\ Len(args.xFloat) = MaxLen
  /\ Len(ret.pcm.data) = MaxLen

\* C9: in the mu-law path an input sample of 0.0 is encoded to the code
\* round((0+1)*127.5) = 128 and decoded to a value within 1e-3 of 0.0.
C9_MuLawZero ==
  (QuantDone /\ ~LinearMode) =>
     \A i \in Samples :
        args.xFloat[i][1] = 0 =>
           /\ ret.ulaw.data[i] = 128
           /\ RatLe(RatAbs(ret.qFloat[i]), <<1, 1000>>)

\* a mu-law call whose buffer holds a zero sample, decoded to a nonzero value
C9_Witness ==
  /\ QuantDone /\ ~LinearMode
  /\ \E i \in Samples : args.xFloat[i][1] = 0 /\ ~IsZero(ret.qFloat[i])

UnsupportedBits == args.bits \notin {8, 16, 24}

\* C10 as stated: a linear PCM call with a bit depth outside {8, 16, 24} fails
\* with UnsupportedBitDepth and returns no quantization result.
C10_AsStated ==
  (QuantDone /\ LinearMode /\ UnsupportedBits) =>
     /\ ret.error = "UnsupportedBitDepth"
     /\ ret.pcm.type = "null"

\* C10 amended: a linear PCM call with a bit depth outside {8, 16, 24} raises no
\* error; it returns a result labelled "{bits}-bit PCM" whose codes, N of them,
\* are held in an Int32Array (the storage of 24 bits) and lie within the peak
\* 2^(bits-1) - 1 of the requested depth.
C10_SilentInt32 ==
  (QuantDone /\ LinearMode /\ UnsupportedBits) =>
     /\ ret.error = "none"
     /\ ret.pcm.type = "Int32Array"
     /\ ret.encLabel = <<args.bits, "-bit PCM">>
     /\ Len(ret.pcm.data) = Len(args.xFloat)
     /\ \A i \in Samples : Abs(ret.pcm.data[i]) <= 2^(args.bits - 1) - 1

\* a 12-bit call that returned a full-scale code
C10_Witness ==
  /\ QuantDone /\ LinearMode /\ args.bits = 12
  /\ \E i \in Samples : ret.pcm.data[i] = 2047

\* the values an element of a typed array can hold
InRangeOfType(type, q) ==
  CASE type = "Int8Array" -> q \in (-128)..127
    [] type = "Int16Array" -> q \in (-32768)..32767
    [] type = "Uint8Array" -> q \in 0..255
    [] OTHER -> -2147483647 - 1 <= q /\ q <= 2147483647

\* C27: every code lies in the range of its storage type and is stored as
\* computed: in linear PCM mode at 8, 16 and 24 bits (Int8Array, Int16Array,
\* Int32Array), with dither on or off and for samples inside and outside
\* [-1,1], |code| <= 2^(bits-1) - 1 and |error| <= 1/(2*peak); in mu-law mode
\* every code is in 0..255.
C27_CodesInRange ==
  QuantDone =>
     /\ (LinearMode /\ args.bits \in {8, 16, 24}) =>
           /\ ret.pcm.type = (CASE args.bits = 8 -> "Int8Array"
                                [] args.bits = 16 -> "Int16Array"
                                [] args.bits = 24 -> "Int32Array")
           /\ \A i \in Samples :
                 LET peak == 2^(args.bits - 1) - 1
                     code == ret.pcm.data[i]
                     err == ret.errFloat[i]
                 IN /\ InRangeOfType(ret.pcm.type, code)
                    /\ RatEq(ret.qFloat[i], <<code, peak>>)
                    /\ Abs(code) <= peak
                    /\ 2 * Abs(err[1]) * peak <= Abs(err[2])
     /\ ~LinearMode =>
           /\ ret.pcm.type = "Uint8Array"
           /\ \A i \in Samples : ret.ulaw.data[i] \in 0..255 /\ ret.pcm.data[i] \in 0..255

\* an 8-bit call with dither on two samples outside [-1,1]: the one below -1
\* coded at the negative peak, the one above 1 moved a step below the peak by
\* the dither
C27_Witness ==
  /\ QuantDone /\ LinearMode /\ args.dither /\ args.bits = 8
  /\ \E i \in Samples : args.xFloat[i][1] < -args.xFloat[i][2] /\ ret.pcm.data[i] = -127
  /\ \E i \in Samples : args.xFloat[i][1] > args.xFloat[i][2] /\ ret.pcm.data[i] = 126

(* ------------------------------------------------------------------ *)
(* computeSNR (audio-engine.js 346-357)                                *)
(* ------------------------------------------------------------------ *)

\* The samples of one call are m * 10^(-e): integer mantissas m sharing a
\* decimal exponent e, so that squared errors near 1e-20 can be written.
MaxMantissa == 2
MaxExp10 == 10
SnrLen == 2
Exp10s == {0, MaxExp10}
Mantissas == (-MaxMantissa)..MaxMantissa
SnrBuffers ==
  UNION {[1..len -> Mantissas] \X [1..len -> Mantissas] : len \in 0..SnrLen}

\* f[1] + ... + f[n]
RECURSIVE SumTo(_, _)
SumTo(f, n) == IF n = 0 THEN 0 ELSE f[n] + SumTo(f, n - 1)

\* lines 349-354: pSig and pErr in units of 10^(-2e)
pSigOf(x) == SumTo([i \in 1..Len(x) |-> x[i] * x[i]], Len(x))
pErrOf(x, y) ==
  SumTo([i \in 1..Len(x) |-> (x[i] - y[i]) * (x[i] - y[i])], Len(x))

\* line 355 with an exact comparison to zero
negligibleExactZero(pErr, e) == pErr = 0

\* line 355: pErr * 10^(-2e) <= 1e-20, pErr a non-negative integer
negligible(pErr, e) ==
  IF 2 * e >= 20 THEN pErr <= 10^(2 * e - 20) ELSE pErr = 0

\* Math.log10(n/d) for n, d > 0, as a rational of fixed-point logarithms
MathLog10(n, d) ==
  <<IF n >= d THEN Log2Fix(n, d) ELSE -Log2Fix(d, n), Log2Fix(10, 1)>>

\* lines 346-357.  value is "Infinity", "-Infinity" (Math.log10(0)) or
\* "finite" with dB the decibels; divided tells whether pSig / pErr was computed
computeSNR(x, y, e) ==
  LET pSig == pSigOf(x)
      pErr == pErrOf(x, y)
  IN IF negligible(pErr, e)
       THEN [value |-> "Infinity", dB |-> Zero, divided |-> FALSE]
       ELSE IF pSig = 0
         THEN [value |-> "-Infinity", dB |-> Zero, divided |-> TRUE]
         ELSE LET l == MathLog10(pSig, pErr)
              IN [value |-> "finite", dB |-> <<10 * l[1], l[2]>>, divided |-> TRUE]

InitSNR ==
  /\ pc = "call"
  /\ \E b \in SnrBuffers, e \in Exp10s : args = [x |-> b[1], y |-> b[2], e |-> e]
  /\ ret = NoRet
  /\ heap = NoHeap
  /\ PageLoaded

ComputeSNR ==
  /\ pc = "call"
  /\ pc' = "done"
  /\ ret' = computeSNR(args.x, args.y, args.e)
  /\ UNCHANGED <<args, heap, pageVars>>

NextSNR == ComputeSNR

SpecSNR == InitSNR /\ [][NextSNR]_vars

\* the total squared error sum((x[i]-y[i])^2), in units of 10^(-2e)
SquaredError ==
  SumTo([i \in 1..Len(args.x) |-> (args.x[i] - args.y[i])^2], Len(args.x))
\* SquaredError * 10^(-2e) <= 1e-20
ErrorAtMost1em20 ==
  \/ SquaredError = 0
  \/ 2 * args.e >= 20 /\ SquaredError <= 10^(2 * args.e - 20)

\* C8: computeSNR returns +Infinity without dividing whenever the total squared
\* error is at most 1e-20, in particular for identical buffers (all-zero ones
\* included); above 1e-20 it does not return +Infinity by the guard.
C8_InfiniteSNR ==
  pc = "done" =>
     /\ ErrorAtMost1em20 => (ret.value = "Infinity" /\ ~ret.divided)
     /\ args.x = args.y => ret.value = "Infinity"
     /\ ~ErrorAtMost1em20 => ret.divided

\* buffers that differ, by a total squared error of exactly 1e-20, and whose
\* signal power is not zero
C8_Witness ==
  /\ pc = "done"
  /\ args.x # args.y
  /\ args.e = 10 /\ SquaredError = 1
  /\ pSigOf(args.x) > 0
  /\ ret.value = "Infinity"

(* ------------------------------------------------------------------ *)
(* reconstructDAC (audio-engine.js 360-385)                            *)
(* ------------------------------------------------------------------ *)

\* Source samples are multiples of 1/QDen in [-MaxQ/QDen, MaxQ/QDen].
QDen == 1
MaxQ == 1
\* longest source drawn, and the greatest rate (Hz)
DacLen == 3
MaxRate == 4
QSet == {<<n, QDen>> : n \in (-MaxQ)..MaxQ}
DacSources == UNION {[1..len -> QSet] : len \in 0..DacLen}
\* method labels: one that starts with "Linear" and one that does not
MethodLabels == {"Linear", "Zero-order hold"}

\* line 364 with the test inverted
startsWithLinearInverted(methodLabel) == methodLabel # "Linear"

\* line 364: methodLabel.startsWith('Linear')
startsWithLinear(methodLabel) == methodLabel = "Linear"

\* the value of an out-of-range read (undefined, NaN in arithmetic)
NaN == <<0, 0>>
IsNaN(r) == r[2] = 0

\* q[k] for a 0-based index k
readAt(q, k) == IF k \in 0..(Len(q) - 1) THEN q[k + 1] ELSE NaN

\* lines 361-362 with the division truncated before the multiplication
NoutTruncated(len, fsIn, fsOut) == (len \div fsIn) * fsOut

\* lines 361-362 with one output sample more (a loop to i <= Nout)
NoutOneMore(len, fsIn, fsOut) == (len * fsOut) \div fsIn + 1

\* lines 361-362: Nout = Math.floor((q.length / fsIn) * fsOut)
NoutOf(len, fsIn, fsOut) == (len * fsOut) \div fsIn

\* line 377 without the test for the final sample
holdsNoLastGuard(linear, n0, len) == ~linear

\* line 377: !linear || n0 === q.length - 1
holds(linear, n0, len) == ~linear \/ n0 = len - 1

\* line 381 with the two weights exchanged
lerpSwapped(a, b, r, fsOut) ==
  <<a[1] * b[2] * r + b[1] * a[2] * (fsOut - r), a[2] * b[2] * fsOut>>

\* line 381: a * (1 - frac) + b * frac, frac = r / fsOut
lerp(a, b, r, fsOut) ==
  <<a[1] * b[2] * (fsOut - r) + b[1] * a[2] * r, a[2] * b[2] * fsOut>>

\* lines 367-382: output sample i: its value and the source indices it reads.
\* n = (i / fsOut) * fsIn, n0 = Math.floor(n), frac = n - n0
dacSample(q, fsIn, fsOut, linear, i) ==
  LET n0 == (i * fsIn) \div fsOut
      r == (i * fsIn) % fsOut
  IN IF n0 < 0 \/ n0 >= Len(q)
       THEN [value |-> Zero, reads |-> {}, branch |-> "silence"]
       ELSE IF holds(linear, n0, Len(q))
         THEN [value |-> readAt(q, n0), reads |-> {n0}, branch |-> "hold"]
         ELSE [value |-> lerp(readAt(q, n0), readAt(q, n0 + 1), r, fsOut),
               reads |-> {n0, n0 + 1}, branch |-> "interpolate"]

\* lines 360-385: the buffer y, with the set of source indices read on the way
reconstructDAC(q, fsIn, fsOut, methodLabel) ==
  LET Nout == NoutOf(Len(q), fsIn, fsOut)
      linear == startsWithLinear(methodLabel)
      out == [i \in 1..Nout |-> dacSample(q, fsIn, fsOut, linear, i - 1)]
  IN [y |-> [i \in 1..Nout |-> out[i].value],
      reads |-> UNION {out[i].reads : i \in 1..Nout},
      branches |-> [i \in 1..Nout |-> out[i].branch]]

InitDAC ==
  /\ pc = "call"
  /\ args \in [q : DacSources, fsIn : 1..MaxRate, fsOut : 1..MaxRate,
               methodLabel : MethodLabels]
  /\ ret = NoRet
  /\ heap = NoHeap
  /\ PageLoaded

ReconstructDAC ==
  /\ pc = "call"
  /\ pc' = "done"
  /\ ret' = reconstructDAC(args.q, args.fsIn, args.fsOut, args.methodLabel)
  /\ UNCHANGED <<args, heap, pageVars>>

NextDAC == ReconstructDAC

SpecDAC == InitDAC /\ [][NextDAC]_vars

DacDone == pc = "done"
IsLinear == args.methodLabel = "Linear"
\* 0-based output indices, and the 0-based source index floor(i*fsIn/fsOut)
OutIdx == 0..(Len(ret.y) - 1)
SrcIdx(i) == (i * args.fsIn) \div args.fsOut

\* C4: the returned buffer has exactly floor((q.length / fsIn) * fsOut) samples:
\* the integer N with N*fsIn <= q.length*fsOut < (N+1)*fsIn.
C4_OutputLength ==
  DacDone =>
     /\ Len(ret.y) * args.fsIn <= Len(args.q) * args.fsOut
     /\ Len(args.q) * args.fsOut < (Len(ret.y) + 1) * args.fsIn

\* a conversion whose duration is not a whole number of seconds and whose
\* output length is not a multiple of the output rate
C4_Witness ==
  /\ DacDone
  /\ Len(args.q) % args.fsIn # 0
  /\ (Len(args.q) * args.fsOut) % args.fsIn # 0
  /\ Len(ret.y) > 0

\* C5: with zero-order hold every output sample i equals
\* q[floor(i*fsIn/fsOut)] exactly; when fsOut = k*fsIn each source sample is
\* repeated k times in order ([1.0] at fsIn = 1, fsOut = 4 gives four 1.0).
C5_ZeroOrderHold ==
  (DacDone /\ ~IsLinear) =>
     /\ \A i \in OutIdx :
           /\ SrcIdx(i) \in 0..(Len(args.q) - 1)
           /\ ret.y[i + 1] = args.q[SrcIdx(i) + 1]
     /\ \A k \in 1..MaxRate :
           args.fsOut = k * args.fsIn =>
              /\ Len(ret.y) = k * Len(args.q)
              /\ \A j \in 1..Len(args.q) :
                    \A c \in 1..k : ret.y[(j - 1) * k + c] = args.q[j]
     /\ (args.q = <<<<QDen, QDen>>>> /\ args.fsIn = 1 /\ args.fsOut = 4) =>
           ret.y = [c \in 1..4 |-> <<QDen, QDen>>]

\* the hold of the single sample 1.0 from 1 Hz to 4 Hz
C5_Witness ==
  /\ DacDone /\ ~IsLinear
  /\ args.q = <<<<QDen, QDen>>>> /\ args.fsIn = 1 /\ args.fsOut = 4
  /\ Len(ret.y) = 4

\* C6: with the Linear method every output sample i with n0 = floor(n) <
\* q.length - 1 equals q[n0]*(1-frac) + q[n0+1]*frac, frac = n - n0; for
\* n0 = q.length - 1 it equals q[n0]; [0.0, 1.0] from 2 Hz to 4 Hz has 0.5 at
\* the midpoint.
C6_LinearInterpolation ==
  (DacDone /\ IsLinear) =>
     /\ \A i \in OutIdx :
          LET n0 == SrcIdx(i)
              r == (i * args.fsIn) % args.fsOut
              a == args.q[n0 + 1]
          IN IF n0 < Len(args.q) - 1
               THEN LET b == args.q[n0 + 2]
                    IN RatEq(ret.y[i + 1],
                             <<(a[1] * b[2] * (args.fsOut - r) + b[1] * a[2] * r),
                               a[2] * b[2] * args.fsOut>>)
               ELSE n0 = Len(args.q) - 1 /\ ret.y[i + 1] = a
     /\ (args.q = <<<<0, QDen>>, <<QDen, QDen>>>> /\ args.fsIn = 2 /\ args.fsOut = 4) =>
           RatEq(ret.y[2], <<1, 2>>)

\* [0.0, 1.0] from 2 Hz to 4 Hz: 0, 0.5, 1, then the hold of the final sample
C6_Witness ==
  /\ DacDone /\ IsLinear
  /\ args.q = <<<<0, QDen>>, <<QDen, QDen>>>> /\ args.fsIn = 2 /\ args.fsOut = 4
  /\ Len(ret.y) = 4
  /\ RatEq(ret.y[2], <<1, 2>>)
  /\ RatEq(ret.y[4], <<1, 1>>)

\* C7: reconstructDAC reads no index outside 0..q.length-1, returns no value
\* made from such a read, and every output sample whose source index
\* floor(i*fsIn/fsOut) is below 0 or at least q.length is 0.
C7_NoOutOfRangeRead ==
  DacDone =>
     /\ ret.reads \subseteq 0..(Len(args.q) - 1)
     /\ \A i \in OutIdx :
           /\ ~IsNaN(ret.y[i + 1])
           /\ (SrcIdx(i) < 0 \/ SrcIdx(i) >= Len(args.q)) => IsZero(ret.y[i + 1])

\* a Linear conversion with an output sample strictly between the final source
\* sample and the end of the recording, where interpolation would need q[length]
C7_Witness ==
  /\ DacDone /\ IsLinear
  /\ \E i \in OutIdx :
        /\ SrcIdx(i) = Len(args.q) - 1
        /\ (i * args.fsIn) % args.fsOut # 0
        /\ ~IsZero(ret.y[i + 1])

\* C26: for a non-empty source and positive rates every output index i maps to
\* a source index floor(i*fsIn/fsOut) in 0..q.length-1: no output sample is the
\* silence of line 373, every one is made from the source samples at that index
\* (and the next one when interpolating), and q[q.length] is never read.
C26_EveryIndexInSource ==
  (DacDone /\ Len(args.q) > 0) =>
     /\ \A i \in OutIdx :
           /\ SrcIdx(i) \in 0..(Len(args.q) - 1)
           /\ ret.branches[i + 1] # "silence"
           /\ ret.branches[i + 1] = "hold" => ret.y[i + 1] = args.q[SrcIdx(i) + 1]
           /\ ret.branches[i + 1] = "interpolate" =>
                 /\ IsLinear /\ SrcIdx(i) + 1 \in 0..(Len(args.q) - 1)
                 /\ ret.y[i + 1] = lerp(args.q[SrcIdx(i) + 1], args.q[SrcIdx(i) + 2],
                                        (i * args.fsIn) % args.fsOut, args.fsOut)
     /\ Len(args.q) \notin ret.reads

\* the longest source played faster and slower than recorded: the final output
\* index maps to the final source sample (upsampling, Linear), or to an earlier
\* one (downsampling)
C26_Witness ==
  /\ DacDone /\ Len(args.q) = DacLen /\ Len(ret.y) > 0
  /\ \/ /\ IsLinear /\ args.fsOut > args.fsIn
        /\ SrcIdx(Len(ret.y) - 1) = Len(args.q) - 1
        /\ ret.branches[Len(ret.y)] = "hold"
        /\ \E i \in OutIdx : ret.branches[i + 1] = "interpolate"
     \/ /\ args.fsOut < args.fsIn
        /\ SrcIdx(Len(ret.y) - 1) < Len(args.q) - 1

(* ------------------------------------------------------------------ *)
(* onePoleLowpass (audio-engine.js 388-400)                            *)
(* ------------------------------------------------------------------ *)

\* 2 * Math.PI as the rational 25/4
TwoPi == <<25, 4>>

\* lines 390-392 with RC in the numerator: alpha = RC / (RC + dt)
alphaComplement(fs, cutoff) ==
  RatNorm(<<TwoPi[2] * fs, TwoPi[2] * fs + TwoPi[1] * cutoff>>)

\* lines 390-392: alpha = dt / (RC + dt), dt = 1/fs, RC = 1/(2*pi*cutoff),
\* which is 2*pi*cutoff / (fs + 2*pi*cutoff); a cutoff of 0 gives RC = Infinity
\* and alpha = 0
alphaOf(fs, cutoff) ==
  RatNorm(<<TwoPi[1] * cutoff, TwoPi[2] * fs + TwoPi[1] * cutoff>>)

\* a + b * (c - a) = (1 - b) * a + b * c for rationals, in lowest terms
RatMix(a, b, c) ==
  RatNorm(<<(b[2] - b[1]) * a[1] * c[2] + b[1] * c[1] * a[2], b[2] * a[2] * c[2]>>)

\* lines 395-398: prev after the samples x[1..i]
RECURSIVE lowpassPrev(_, _, _)
lowpassPrev(x, alpha, i) ==
  IF i = 0 THEN Zero ELSE RatMix(lowpassPrev(x, alpha, i - 1), alpha, x[i])

\* lines 388-400
onePoleLowpass(x, fs, cutoff) ==
  LET alpha == alphaOf(fs, cutoff)
  IN [i \in 1..Len(x) |-> lowpassPrev(x, alpha, i)]

(* ------------------------------------------------------------------ *)
(* The arrays the stages read and write (audio-engine.js 287-400)      *)
(* ------------------------------------------------------------------ *)

\* Here an array is an object: heap[id] is the content of the array of
\* identity id, and a stage is given and returns identities.

\* cutoffs drawn for the low-pass (Hz)
MaxCutoff == 2

\* `new Float32Array(n)` made to return the array the stage was given
sameArrayId(h, given) == given

\* `new Float32Array(n)` and the other typed-array constructors: the identity
\* of the array created next, one that no existing array has (given, the
\* array the stage was called with, is not reused)
newArrayId(h, given) == Len(h) + 1

\* arr[i] = v for every i: the heap after the array id has been filled with data
store(h, id, data) ==
  IF id \in DOMAIN h THEN [h EXCEPT ![id] = data] ELSE Append(h, data)

\* lines 287-336 on the heap: qFloat, errFloat and ulaw or arr are created
\* (lines 289-290, 296, 317-319), filled, and returned
quantizeBufferOn(h, xFloat, bits, dither, compression, noise) ==
  LET r == quantizeBuffer(h[xFloat], bits, dither, compression, noise)
      qFloat == newArrayId(h, xFloat)
      h1 == store(h, qFloat, r.qFloat)
      errFloat == newArrayId(h1, xFloat)
      h2 == store(h1, errFloat, r.errFloat)
      codes == newArrayId(h2, xFloat)
      h3 == store(h2, codes, r.pcm.data)
  IN [heap |-> h3,
      ret |-> [qFloat |-> qFloat, errFloat |-> errFloat, pcm |-> codes,
               ulaw |-> IF startsWithMu(compression) THEN codes ELSE 0,
               encLabel |-> r.encLabel],
      arrays |-> {qFloat, errFloat, codes}]

\* lines 346-357 on the heap: x and y are read, nothing is created or written
computeSNROn(h, x, y, e) ==
  [heap |-> h, ret |-> computeSNR(h[x], h[y], e), arrays |-> {}]

\* lines 360-385 on the heap: y is created (line 363), filled, and returned
reconstructDACOn(h, q, fsIn, fsOut, methodLabel) ==
  LET y == newArrayId(h, q)
  IN [heap |-> store(h, y, reconstructDAC(h[q], fsIn, fsOut, methodLabel).y),
      ret |-> y,
      arrays |-> {y}]

\* lines 388-400 on the heap: y is created (line 389), filled, and returned
onePoleLowpassOn(h, x, fs, cutoff) ==
  LET y == newArrayId(h, x)
  IN [heap |-> store(h, y, onePoleLowpass(h[x], fs, cutoff)),
      ret |-> y,
      arrays |-> {y}]

\* One call of a stage on arrays that exist already: the heap holds the input
\* arrays, args their identities.
InitStage ==
  /\ pc = "call"
  /\ ret = NoRet
  /\ PageLoaded
  /\ \/ \E b \in Buffers, bits \in {8, 16}, c \in Compressions :
          /\ heap = <<b>>
          /\ args = [fn |-> "quantizeBuffer", xFloat |-> 1, bits |-> bits,
                     dither |-> FALSE, compression |-> c]
     \/ \E b \in SnrBuffers, e \in Exp10s :
          /\ heap = <<b[1], b[2]>>
          /\ args = [fn |-> "computeSNR", x |-> 1, y |-> 2, e |-> e]
     \/ \E q \in DacSources, fsIn \in 1..MaxRate, fsOut \in 1..MaxRate,
           m \in MethodLabels :
          /\ heap = <<q>>
          /\ args = [fn |-> "reconstructDAC", q |-> 1, fsIn |-> fsIn,
                     fsOut |-> fsOut, methodLabel |-> m]
     \/ \E x \in DacSources, fs \in 1..MaxRate, cutoff \in 0..MaxCutoff :
          /\ heap = <<x>>
          /\ args = [fn |-> "onePoleLowpass", x |-> 1, fs |-> fs,
                     cutoff |-> cutoff]

\* the stage runs: the heap and the returned identities after it
Returns(r) ==
  /\ pc' = "done"
  /\ heap' = r.heap
  /\ ret' = [value |-> r.ret, arrays |-> r.arrays]
  /\ UNCHANGED <<args, pageVars>>

StageQuantize ==
  /\ pc = "call" /\ args.fn = "quantizeBuffer"
  /\ Returns(quantizeBufferOn(heap, args.xFloat, args.bits, args.dither,
                              args.compression,
                              [i \in 1..Len(heap[args.xFloat]) |-> 0]))

StageSNR ==
  /\ pc = "call" /\ args.fn = "computeSNR"
  /\ Returns(computeSNROn(heap, args.x, args.y, args.e))

StageDAC ==
  /\ pc = "call" /\ args.fn = "reconstructDAC"
  /\ Returns(reconstructDACOn(heap, args.q, args.fsIn, args.fsOut,
                              args.methodLabel))

StageLowpass ==
  /\ pc = "call" /\ args.fn = "onePoleLowpass"
  /\ Returns(onePoleLowpassOn(heap, args.x, args.fs, args.cutoff))

NextStage == StageQuantize \/ StageSNR \/ StageDAC \/ StageLowpass

SpecStage == InitStage /\ [][NextStage]_vars

\* C15: a call of quantizeBuffer, computeSNR, reconstructDAC or onePoleLowpass
\* leaves every array that existed before it as it was, and every array it
\* returns is one that did not exist before the call.
C15_InputsUntouched ==
  [][(pc = "call" /\ pc' = "done") =>
        /\ \A id \in DOMAIN heap : id \in DOMAIN heap' /\ heap'[id] = heap[id]
        /\ \A id \in ret'.arrays : id \in DOMAIN heap' /\ id \notin DOMAIN heap]_vars

\* a low-pass call whose output differs from its input, which is still on the
\* heap as it was given
C15_Witness ==
  /\ pc = "done"
  /\ args.fn = "onePoleLowpass"
  /\ Len(heap) = 2
  /\ ret.value = 2
  /\ Len(heap[1]) >= 2
  /\ \E i \in 1..Len(heap[1]) : ~RatEq(heap[2][i], heap[1][i])

LowpassDone == pc = "done" /\ args.fn = "onePoleLowpass" /\ args.cutoff > 0

\* dt / (RC + dt) with dt = 1/fs and RC = 1/(2*pi*cutoff), cutoff > 0
ClaimedAlpha(fs, cutoff) ==
  LET RC == <<TwoPi[2], TwoPi[1] * cutoff>>
      sum == <<RC[1] * fs + RC[2], RC[2] * fs>>
  IN <<sum[2], fs * sum[1]>>

\* p + a * (x - p) for rationals
ClaimedStep(p, a, x) ==
  RatNorm(<<p[1] * a[2] * x[2] + a[1] * (x[1] * p[2] - p[1] * x[2]),
            p[2] * a[2] * x[2]>>)

\* C23: for a positive rate and cutoff, onePoleLowpass returns a buffer as long
\* as its input with y[0] = alpha*x[0] and y[i] = y[i-1] + alpha*(x[i] - y[i-1]),
\* alpha = dt/(RC+dt) lying strictly between 0 and 1; y[i] is what the filter
\* returns at i for x[0..i] alone (the filter is causal), and the running state
\* is 0 at the start of the call.
C23_OnePoleLowpass ==
  LowpassDone =>
     LET x == heap[args.x]
         y == heap[ret.value]
         alpha == ClaimedAlpha(args.fs, args.cutoff)
     IN /\ Len(y) = Len(x)
        /\ RatLt(Zero, alpha) /\ RatLt(alpha, <<1, 1>>)
        /\ \A i \in 1..Len(x) :
              /\ RatEq(y[i], ClaimedStep(IF i = 1 THEN Zero ELSE y[i - 1], alpha, x[i]))
              /\ RatEq(onePoleLowpass(SubSeq(x, 1, i), args.fs, args.cutoff)[i], y[i])

\* a call on three samples, the first nonzero and the second different from it:
\* the output moves towards each sample without reaching it
C23_Witness ==
  /\ LowpassDone
  /\ Len(heap[args.x]) = 3
  /\ ~IsZero(heap[args.x][1])
  /\ heap[args.x][2] # heap[args.x][1]
  /\ ~RatEq(heap[ret.value][1], heap[args.x][1])
  /\ ~RatEq(heap[ret.value][2], heap[ret.value][1])
  /\ ~RatEq(heap[ret.value][2], heap[args.x][2])

(* ------------------------------------------------------------------ *)
(* generateADSR (utils.js 69-101)                                      *)
(* ------------------------------------------------------------------ *)

\* longest envelope drawn (samples)
MaxAdsrLen == 6
\* attack, decay and release times drawn (s): none, 1/20 s, 1/8 s
AdsrTimes == {<<0, 1>>, <<1, 20>>, <<1, 8>>}
\* sustain levels drawn
SustainLevels == {<<0, 1>>, <<1, 2>>, <<1, 1>>}

\* the loops of lines 82-98 without the test i < length
phaseRunsUnguarded(n, i, length) == Max(0, n)

\* for (let j = 0; j < n && i < length; j++, i++): the iterations the loop
\* makes when it is entered with i
phaseRuns(n, i, length) ==
  IF n <= 0 \/ i >= length THEN 0 ELSE Min(n, length - i)

\* lines 69-101: the envelope returned, and the assignments envelope[i] = v
\* in the order they were made
generateADSR(length, sampleRate, params) ==
  LET attackSamples == MathFloor(<<params.attack[1] * sampleRate, params.attack[2]>>)
      decaySamples == MathFloor(<<params.decay[1] * sampleRate, params.decay[2]>>)
      releaseSamples == MathFloor(<<params.release[1] * sampleRate, params.release[2]>>)
      sustainSamples == length - attackSamples - decaySamples - releaseSamples
      s == params.sustain
      nA == phaseRuns(attackSamples, 0, length)
      nD == phaseRuns(decaySamples, nA, length)
      nS == phaseRuns(sustainSamples, nA + nD, length)
      nR == phaseRuns(releaseSamples, nA + nD + nS, length)
      write(i) ==
        CASE i < nA ->
               [index |-> i, phase |-> "attack", value |-> <<i, attackSamples>>]
          [] i >= nA /\ i < nA + nD ->
               [index |-> i, phase |-> "decay",
                value |-> <<s[2] * decaySamples - (s[2] - s[1]) * (i - nA),
                            s[2] * decaySamples>>]
          [] i >= nA + nD /\ i < nA + nD + nS ->
               [index |-> i, phase |-> "sustain", value |-> s]
          [] OTHER ->
               [index |-> i, phase |-> "release",
                value |-> <<s[1] * (releaseSamples - (i - nA - nD - nS)),
                            s[2] * releaseSamples>>]
      writes == [k \in 1..(nA + nD + nS + nR) |-> write(k - 1)]
  IN [envelope |-> [i \in 0..(length - 1) |->
                      IF i < Len(writes) THEN writes[i + 1].value ELSE Zero],
      writes |-> writes]

InitADSR ==
  /\ pc = "call"
  /\ args \in [length : 0..MaxAdsrLen, sampleRate : SampleRates,
               params : [attack : AdsrTimes, decay : AdsrTimes,
                         sustain : SustainLevels, release : AdsrTimes]]
  /\ ret = NoRet
  /\ heap = NoHeap
  /\ PageLoaded

GenerateADSR ==
  /\ pc = "call"
  /\ pc' = "done"
  /\ ret' = generateADSR(args.length, args.sampleRate, args.params)
  /\ UNCHANGED <<args, heap, pageVars>>

NextADSR == GenerateADSR

SpecADSR == InitADSR /\ [][NextADSR]_vars

\* the place of a phase in the order attack, decay, sustain, release
PhaseRank(phase) ==
  CASE phase = "attack" -> 1 [] phase = "decay" -> 2
    [] phase = "sustain" -> 3 [] phase = "release" -> 4

\* C24: generateADSR returns exactly `length` gain values and writes at no
\* index >= length, whatever the length (the later phases are cut short or
\* skipped when it is shorter than attack + decay + release); every index
\* below length is written once, in increasing order, the phases following
\* one another as attack, decay, sustain, release; with sustain in [0,1] every
\* gain lies in [0,1].
C24_EnvelopeLength ==
  pc = "done" =>
     /\ DOMAIN ret.envelope = 0..(args.length - 1)
     /\ Len(ret.writes) = args.length
     /\ \A k \in 1..Len(ret.writes) :
           /\ ret.writes[k].index = k - 1
           /\ ret.writes[k].index < args.length
           /\ ret.envelope[k - 1] = ret.writes[k].value
           /\ k > 1 => PhaseRank(ret.writes[k - 1].phase) <= PhaseRank(ret.writes[k].phase)
     /\ \A i \in DOMAIN ret.envelope :
           RatLe(Zero, ret.envelope[i]) /\ RatLe(ret.envelope[i], <<1, 1>>)

\* an envelope shorter than its attack and decay together: the decay is cut
\* short and neither sustain nor release is reached
C24_Witness ==
  /\ pc = "done"
  /\ args.length >= 3
  /\ MathFloor(<<args.params.attack[1] * args.sampleRate, args.params.attack[2]>>)
       + MathFloor(<<args.params.decay[1] * args.sampleRate, args.params.decay[2]>>)
       > args.length
  /\ args.params.release # <<0, 1>>
  /\ ret.writes[1].phase = "attack"
  /\ ret.writes[args.length].phase = "decay"

(* ------------------------------------------------------------------ *)
(* encodeWavFromPCM, encodeWavFromULaw (main.js 767-894)               *)
(* ------------------------------------------------------------------ *)

\* mu-law codes drawn
UlawBytes == {0, 127, 255}
UlawBuffers == UNION {[1..len -> UlawBytes] : len \in 0..MaxLen}

\* the char codes of the four tags writeString writes
CharCodes(str) ==
  CASE str = "RIFF" -> <<82, 73, 70, 70>>
    [] str = "WAVE" -> <<87, 65, 86, 69>>
    [] str = "fmt " -> <<102, 109, 116, 32>>
    [] str = "data" -> <<100, 97, 116, 97>>

\* the bytes of view.setUint16(_, n, true), view.setUint32(_, n, true) and of
\* the three setUint8 of the 24-bit branch: little-endian, two's complement
Bytes2(n) == <<n % 256, (n \div 256) % 256>>
Bytes3(n) == <<n % 256, (n \div 256) % 256, (n \div 65536) % 256>>
Bytes4(n) == <<n % 256, (n \div 256) % 256, (n \div 65536) % 256,
               (n \div 16777216) % 256>>

\* a write of the bytes bs at offset off of the view
WriteAt(off, bs) == [offset |-> off, bytes |-> bs]

\* A DataView setter outside the buffer throws a RangeError, which ends the
\* encoder without a file.
RangeError == [error |-> "RangeError"]

\* the ArrayBuffer of `size` bytes (all zero when created) after the writes,
\* made in order
viewAfter(size, writes) ==
  IF \E k \in 1..Len(writes) : writes[k].offset + Len(writes[k].bytes) > size
    THEN RangeError
    ELSE [error |-> "none",
          bytes |-> [i \in 0..(size - 1) |->
                      LET ks == {k \in 1..Len(writes) :
                                   /\ writes[k].offset <= i
                                   /\ i < writes[k].offset + Len(writes[k].bytes)}
                          last == CHOOSE k \in ks : \A j \in ks : j <= k
                      IN IF ks = {} THEN 0
                         ELSE writes[last].bytes[i - writes[last].offset + 1]]]

\* main.js 775-788, 848-857: mono copied, or each sample duplicated
interleave(data, ch) ==
  IF ch = 1 THEN data
  ELSE [i \in 1..(2 * Len(data)) |-> data[(i + 1) \div 2]]

\* main.js 791: bytes per sample of the PCM file
bytesPerSampleOf(bits) == IF bits = 24 THEN 3 ELSE IF bits = 16 THEN 2 ELSE 1

\* main.js 818-840: the bytes of one PCM sample
pcmBytes(x, bits) ==
  LET c == clampRat(x, -1, 1) IN
  CASE bits = 16 -> Bytes2(MathRound(<<c[1] * 32767, c[2]>>))
    [] bits = 24 -> Bytes3(MathRound(<<c[1] * 8388607, c[2]>>))
    [] OTHER -> <<MathRound(<<(c[1] + c[2]) * 255, 2 * c[2]>>) % 256>>

\* main.js 773-844: the writes to the view in their order, and the buffer
encodeWavFromPCM(floatData, sampleRate, bits, channels) ==
  LET interleaved == interleave(floatData, channels)
      bytesPerSample == bytesPerSampleOf(bits)
      blockAlign == channels * bytesPerSample
      byteRate == sampleRate * blockAlign
      dataSize == Len(interleaved) * bytesPerSample
      header == <<WriteAt(0, CharCodes("RIFF")), WriteAt(4, Bytes4(36 + dataSize)),
                  WriteAt(8, CharCodes("WAVE")), WriteAt(12, CharCodes("fmt ")),
                  WriteAt(16, Bytes4(16)), WriteAt(20, Bytes2(1)),
                  WriteAt(22, Bytes2(channels)), WriteAt(24, Bytes4(sampleRate)),
                  WriteAt(28, Bytes4(byteRate)), WriteAt(32, Bytes2(blockAlign)),
                  WriteAt(34, Bytes2(bits)), WriteAt(36, CharCodes("data")),
                  WriteAt(40, Bytes4(dataSize))>>
      samples == [i \in 1..Len(interleaved) |->
                    WriteAt(44 + (i - 1) * bytesPerSample, pcmBytes(interleaved[i], bits))]
  IN [file |-> viewAfter(44 + dataSize, header \o samples),
      samples |-> samples, dataSize |-> dataSize]

\* main.js 846-894: the writes to the view in their order, and the buffer
encodeWavFromULaw(ulawBytes, sampleRate, channels) ==
  LET interleaved == interleave(ulawBytes, channels)
      blockAlign == channels
      byteRate == sampleRate * blockAlign
      dataSize == Len(interleaved)
      header == <<WriteAt(0, CharCodes("RIFF")), WriteAt(4, Bytes4(36 + dataSize)),
                  WriteAt(8, CharCodes("WAVE")), WriteAt(12, CharCodes("fmt ")),
                  WriteAt(16, Bytes4(18)), WriteAt(20, Bytes2(7)),
                  WriteAt(22, Bytes2(channels)), WriteAt(24, Bytes4(sampleRate)),
                  WriteAt(28, Bytes4(byteRate)), WriteAt(32, Bytes2(blockAlign)),
                  WriteAt(34, Bytes2(8)), WriteAt(36, Bytes2(0)),
                  WriteAt(38, CharCodes("data")), WriteAt(42, Bytes4(dataSize))>>
      samples == [i \in 1..Len(interleaved) |->
                    WriteAt(44 + (i - 1), <<interleaved[i]>>)]
  IN [file |-> viewAfter(44 + dataSize, header \o samples),
      samples |-> samples, dataSize |-> dataSize]

InitWav ==
  /\ pc = "call"
  /\ ret = NoRet
  /\ heap = NoHeap
  /\ PageLoaded
  /\ \/ args \in [fn : {"encodeWavFromPCM"}, data : Buffers, sampleRate : SampleRates,
                  bits : {8, 16, 24}, channels : {1, 2}]
     \/ args \in [fn : {"encodeWavFromULaw"}, data : UlawBuffers,
                  sampleRate : SampleRates, bits : {8}, channels : {1, 2}]

EncodeWavFromPCM ==
  /\ pc = "call" /\ args.fn = "encodeWavFromPCM"
  /\ pc' = "done"
  /\ ret' = encodeWavFromPCM(args.data, args.sampleRate, args.bits, args.channels)
  /\ UNCHANGED <<args, heap, pageVars>>

EncodeWavFromULaw ==
  /\ pc = "call" /\ args.fn = "encodeWavFromULaw"
  /\ pc' = "done"
  /\ ret' = encodeWavFromULaw(args.data, args.sampleRate, args.channels)
  /\ UNCHANGED <<args, heap, pageVars>>

NextWav == EncodeWavFromPCM \/ EncodeWavFromULaw

SpecWav == InitWav /\ [][NextWav]_vars

\* the little-endian number in the n bytes of the file from offset off
ReadLE(file, off, n) ==
  IF n = 2 THEN file.bytes[off] + 256 * file.bytes[off + 1]
  ELSE file.bytes[off] + 256 * file.bytes[off + 1] + 65536 * file.bytes[off + 2]
         + 16777216 * (file.bytes[off + 3] % 128)

\* a file whose header is headerSize bytes long, with its data-chunk size
\* field in the last four of them, followed by every sample byte
WavLayout(headerSize, tag) ==
  /\ ret.file.error = "none"
  /\ ReadLE(ret.file, 20, 2) = tag
  /\ DOMAIN ret.file.bytes = 0..(headerSize + ret.dataSize - 1)
  /\ ReadLE(ret.file, headerSize - 4, 4) = ret.dataSize
  /\ LET n == IF Len(ret.samples) = 0 THEN 1 ELSE Len(ret.samples[1].bytes)
     IN \A i \in 1..Len(ret.samples) : \A b \in 1..n :
           ret.file.bytes[headerSize + (i - 1) * n + b - 1] = ret.samples[i].bytes[b]

\* C25, as stated: the linear PCM file has format tag 1 and a 44-byte header,
\* the mu-law file format tag 7 and a 46-byte header with the data-chunk size
\* at bytes 42..45; in both the sample bytes follow the header, all of them, and
\* the data-chunk size read back is the number of sample bytes.
C25_AsStated ==
  pc = "done" =>
     /\ args.fn = "encodeWavFromPCM" => WavLayout(44, 1)
     /\ args.fn = "encodeWavFromULaw" =>
          (WavLayout(46, 7) /\ ReadLE(ret.file, 16, 4) = 18)

(* ------------------------------------------------------------------ *)
(* VisualizationManager: start, stop, draw (main.js 1242-1312)         *)
(* ------------------------------------------------------------------ *)

\* animation frames requested in one behaviour
MaxFrames == 40

\* cancelAnimationFrame left out
cancelNoFrame(fs, id) == fs

\* cancelAnimationFrame(id): the pending callbacks after it
cancelAnimationFrame(fs, id) == fs \ {id}

\* main.js 1273-1302: draw paints the registered canvases and requests the
\* next frame; op is the call it runs in
draw(op) ==
  /\ animationFrames' = (animationFrames \ (IF op = "frame" THEN {rafId} ELSE {}))
                          \cup {nextFrameId}
  /\ rafId' = nextFrameId
  /\ nextFrameId' = nextFrameId + 1

\* what is noted of a call that ran draw once
Drew(op) ==
  [op |-> op, wasRunning |-> rafId # 0, draws |-> 1, requests |-> 1,
   pending |-> animationFrames]

\* main.js 1270-1305: vizManager.start()
start ==
  IF rafId # 0
    THEN /\ lastViz' = [op |-> "start", wasRunning |-> TRUE, draws |-> 0,
                        requests |-> 0, pending |-> animationFrames]
         /\ UNCHANGED <<rafId, animationFrames, nextFrameId>>
    ELSE draw("start") /\ lastViz' = Drew("start")

\* main.js 1307-1312: vizManager.stop()
stop ==
  /\ IF rafId # 0
       THEN /\ animationFrames' = cancelAnimationFrame(animationFrames, rafId)
            /\ rafId' = 0
       ELSE UNCHANGED <<rafId, animationFrames>>
  /\ lastViz' = [op |-> "stop", wasRunning |-> rafId # 0, draws |-> 0,
                 requests |-> 0, pending |-> animationFrames]
  /\ UNCHANGED nextFrameId

VizStart ==
  /\ nextFrameId <= MaxFrames
  /\ start
  /\ UNCHANGED <<callVars, appVars, playVars>>

VizStop ==
  /\ stop
  /\ UNCHANGED <<callVars, appVars, playVars>>

\* the browser runs a pending animation-frame callback: draw
AnimationFrame ==
  /\ nextFrameId <= MaxFrames
  /\ \E f \in animationFrames :
        IF f = rafId
          THEN draw("frame")
          ELSE /\ animationFrames' = (animationFrames \ {f}) \cup {nextFrameId}
               /\ rafId' = nextFrameId
               /\ nextFrameId' = nextFrameId + 1
  /\ lastViz' = Drew("frame")
  /\ UNCHANGED <<callVars, appVars, playVars>>

InitViz ==
  /\ pc = "page"
  /\ args = NoRet
  /\ ret = NoRet
  /\ heap = NoHeap
  /\ PageLoaded

NextViz == VizStart \/ VizStop \/ AnimationFrame

SpecViz == InitViz /\ [][NextViz]_vars

\* C28: for any sequence of start() and stop() calls and animation frames, at
\* most one animation-frame callback is pending: a start() while the loop runs
\* does nothing, every draw requests exactly one frame, and after stop() no
\* callback is pending (so that nothing draws before the next start()).
C28_OnePendingFrame ==
  /\ Cardinality(animationFrames) <= 1
  /\ animationFrames = (IF rafId = 0 THEN {} ELSE {rafId})
  /\ (lastViz.op = "start" /\ lastViz.wasRunning) =>
        /\ lastViz.draws = 0 /\ lastViz.requests = 0
        /\ animationFrames = lastViz.pending
  /\ lastViz.requests = lastViz.draws
  /\ lastViz.draws = 1 => Cardinality(animationFrames \ lastViz.pending) = 1
  /\ lastViz.op = "stop" => (animationFrames = {} /\ rafId = 0)

\* the loop was started, ran for some frames, was stopped and started again,
\* and a start() arrived while it was running
C28_Witness ==
  /\ lastViz.op = "start" /\ lastViz.wasRunning
  /\ rafId > 3
  /\ animationFrames = {rafId}

(* ------------------------------------------------------------------ *)
(* The page: handlers, timers, generateAllSignals (main.js, utils.js)  *)
(* ------------------------------------------------------------------ *)

\* main.js 587: the delay of the regeneration timer (ms)
GenerationWait == 250
\* main.js 742: the wait of the debounced resize handler (ms)
ResizeWait == 250
\* main.js 138: the delay of the first generation after Enable Audio (ms)
InitialDelay == 100
\* the time one Tick lets pass (ms)
TickMs == 125
\* user events after the page has loaded (parameter changes, resizes, clicks
\* on Play) in one behaviour; the one click on Enable Audio is not counted
MaxEvents == 2

\* main.js 106: the AudioContext
Ctx == [context |-> TRUE]

\* the wait behind each debounced function
WaitOf(f) == IF f = "generateAllSignals" THEN GenerationWait ELSE ResizeWait
\* the timer callback behind each debounced function: the arrow function of
\* main.js 587, and `later` of utils.js 45
CallbackOf(f) == IF f = "generateAllSignals" THEN "generateAllSignals" ELSE "later"

\* setTimeout(callback, delay): the pending timers after it; id is the id it
\* returns, arg what the callback closes over
setTimeout(ts, id, callback, delay, arg) ==
  ts \cup {[id |-> id, remaining |-> delay, callback |-> callback, arg |-> arg]}

\* clearTimeout left out
clearNothing(ts, id) == ts

\* clearTimeout(id): the pending timers after it (no timer has id 0)
clearTimeout(ts, id) == {t \in ts : t.id # id}

\* main.js 584-588: scheduleGeneration, called with an audio context
ScheduleGeneration ==
  /\ timers' = setTimeout(clearTimeout(timers, generationTimer), nextTimerId,
                          "generateAllSignals", GenerationWait, 0)
  /\ generationTimer' = nextTimerId
  /\ nextTimerId' = nextTimerId + 1
  /\ calls' = [calls EXCEPT !["generateAllSignals"] = [n |-> @.n + 1, arg |-> 0]]
  /\ idle' = [idle EXCEPT !["generateAllSignals"] = 0]

\* `if (audioCtx) scheduleGeneration()` (main.js 284, 620, 633, 697, 718) and
\* the guard of line 585
IfAudioSchedule ==
  IF audioCtx # NullRef
    THEN ScheduleGeneration
    ELSE UNCHANGED <<timers, nextTimerId, generationTimer, calls, idle>>

\* the ids of a waveform list, in order
IdsOf(ws) == [i \in 1..Len(ws) |-> ws[i].id]

\* renderWaves without the default sine of lines 166-170
renderWavesNoDefault(ws, next, rs) ==
  [waveforms |-> ws, nextWaveId |-> next, rows |-> IdsOf(ws)]

\* main.js 163-304: renderWaves.  An empty list gets the default sine and the
\* rows are left as they are (the early return of line 169); otherwise the rows
\* are rebuilt from the list.
renderWaves(ws, next, rs) ==
  IF ws = <<>>
    THEN [waveforms |-> <<Wave(next, "sine", <<6, 10>>, 440, 0)>>,
          nextWaveId |-> next + 1, rows |-> rs]
    ELSE [waveforms |-> ws, nextWaveId |-> next, rows |-> IdsOf(ws)]

\* a run of generateAllSignals that has returned
Returned == [pc |-> "done", preview |-> NullRef, analog |-> NullRef, then |-> "none"]

\* main.js 318-333: a call of generateAllSignals up to its first await: the
\* run returns at once without a context or a waveform, or starts the preview
\* render of state.previewDur and state.waveforms
generateAllSignals(rs) ==
  IF audioCtx = NullRef \/ waveforms = <<>>
    THEN Append(rs, Returned)
    ELSE Append(rs, [pc |-> "preview",
                     preview |-> [duration |-> previewDur, waves |-> waveforms],
                     analog |-> NullRef, then |-> "none"])

\* source.stop() left out
stillPlaying(playing, source) == playing

\* main.js 566: abCurrentSource.stop(): the started sources after it
stopped(playing, source) == playing \ {source}

\* main.js 562-580: stopAB
stopAB ==
  /\ abPlaying' = IF abCurrentSource # NullRef
                    THEN stopped(abPlaying, abCurrentSource) ELSE abPlaying
  /\ abCurrentSource' = NullRef

\* main.js 536-557: playAB with both sources a and b present: stopAB, then a
\* new looping source of the buffer of the mode is started and kept
startSource(mode, a, b) ==
  LET source == [id |-> nextSourceId, buffer |-> IF mode = "A" THEN a ELSE b]
  IN /\ abPlaying' = (IF abCurrentSource # NullRef
                         THEN stopped(abPlaying, abCurrentSource) ELSE abPlaying)
                      \cup {source}
     /\ abCurrentSource' = source
     /\ nextSourceId' = nextSourceId + 1

\* main.js 520-533: generateAllSignals().then(...): the run just started
\* calls playAB again when it returns
thenPlayAB(rs) ==
  IF rs[Len(rs)].pc = "done" THEN rs ELSE [rs EXCEPT ![Len(rs)].then = "playAB"]

\* main.js 511-560: playAB with an audio context, in the mode given (a run that
\* returns at once has not made the sources, and its continuation does nothing)
playAB(mode) ==
  IF abSourceA = NullRef \/ abSourceB = NullRef
    THEN /\ runs' = thenPlayAB(generateAllSignals(runs))
         /\ UNCHANGED <<abCurrentSource, abPlaying, nextSourceId, vizVars>>
    ELSE /\ startSource(mode, abSourceA, abSourceB)
         /\ start
         /\ UNCHANGED runs

\* main.js 523-530: the continuation of run r of generateAllSignals, which
\* has returned with the sources a and b; starts is the number of calls of
\* vizManager.start() the run made in the same step
continuation(r, a, b, starts) ==
  IF runs[r].then = "playAB" /\ a # NullRef /\ b # NullRef
    THEN /\ startSource(abMode, a, b)
         /\ IF starts = 0 \/ rafId # 0
              THEN start
              ELSE /\ draw("start")
                   /\ lastViz' = [op |-> "start", wasRunning |-> TRUE, draws |-> 0,
                                  requests |-> 0, pending |-> {nextFrameId}]
    ELSE /\ UNCHANGED <<abCurrentSource, abPlaying, nextSourceId>>
         /\ IF starts = 0 THEN UNCHANGED vizVars ELSE start

\* main.js 474-494: renderDAC, given the recording: the buffer made from it
\* with the DAC controls as they are now, or the former buffer
renderDAC(r, rec) ==
  IF audioCtx = NullRef \/ rec = NullRef
    THEN dacBuf
    ELSE [run |-> r, recorded |-> rec,
          controls |-> [c \in DacControls |-> dom[c]]]

UserEvent ==
  /\ events < MaxEvents
  /\ events' = events + 1

\* main.js 605-608, 102-149: click on Enable Audio (the button is disabled by
\* the first click)
EnableAudio ==
  /\ audioCtx = NullRef
  /\ audioCtx' = Ctx
  /\ IF waveforms # <<>>
       THEN /\ timers' = setTimeout(timers, nextTimerId, "initial", InitialDelay, 0)
            /\ nextTimerId' = nextTimerId + 1
       ELSE UNCHANGED <<timers, nextTimerId>>
  /\ UNCHANGED <<callVars, playVars, vizVars, waveforms, nextWaveId, previewDur, rows, dom,
                 generationTimer, timeout, runs, previewBuf, abSourceA, recorded,
                 dacBuf, abSourceB, events, calls, idle, lastFired>>

\* main.js 615-624: click on Add Waveform
AddWave ==
  /\ UserEvent
  /\ LET r == renderWaves(Append(waveforms, Wave(nextWaveId, "sine", <<8, 10>>, 440, 0)),
                          nextWaveId + 1, rows)
     IN /\ waveforms' = r.waveforms
        /\ nextWaveId' = r.nextWaveId
        /\ rows' = r.rows
  /\ IfAudioSchedule
  /\ UNCHANGED <<callVars, playVars, vizVars, audioCtx, previewDur, dom, timeout, runs, previewBuf,
                 abSourceA, recorded, dacBuf, abSourceB, lastFired>>

\* the edits drawn: the frequency input of a row, set to either of two values
WaveEdits == {<<"freq", 440>>, <<"freq", 880>>}

\* the controls a behaviour changes: every control of a list is given the same
\* handler by the forEach of main.js 693-699 and 716-720
ChangedControls == {"recRateSel", "dacMethodSel", "dacLPInput"}

\* main.js 272-286: input on a control of a waveform row
EditWave ==
  /\ UserEvent
  /\ \E n \in 1..Len(rows), e \in WaveEdits :
       /\ \E i \in 1..Len(waveforms) :
            /\ waveforms[i].id = rows[n]
            /\ waveforms[i][e[1]] # e[2]
            /\ waveforms' = [waveforms EXCEPT ![i][e[1]] = e[2]]
  /\ IfAudioSchedule
  /\ UNCHANGED <<callVars, playVars, vizVars, audioCtx, nextWaveId, previewDur, rows, dom, timeout,
                 runs, previewBuf, abSourceA, recorded, dacBuf, abSourceB,
                 lastFired>>

\* main.js 290-297, 158-161: click on Delete of a waveform row: removeWave
\* filters the list and calls renderWaves, and nothing else
DeleteWave ==
  /\ UserEvent
  /\ \E n \in 1..Len(rows) :
       /\ LET r == renderWaves(SelectSeq(waveforms, LAMBDA w : w.id # rows[n]),
                               nextWaveId, rows)
          IN /\ waveforms' = r.waveforms
             /\ nextWaveId' = r.nextWaveId
             /\ rows' = r.rows
  /\ UNCHANGED <<callVars, playVars, vizVars, audioCtx, previewDur, dom, timers, nextTimerId,
                 generationTimer, timeout, runs, previewBuf, abSourceA, recorded,
                 dacBuf, abSourceB, calls, idle, lastFired>>

\* main.js 631-634: input on the preview duration
ChangePreviewDur ==
  /\ UserEvent
  /\ \E v \in ControlValues : v # previewDur /\ previewDur' = v
  /\ IfAudioSchedule
  /\ UNCHANGED <<callVars, playVars, vizVars, audioCtx, waveforms, nextWaveId, rows, dom, timeout,
                 runs, previewBuf, abSourceA, recorded, dacBuf, abSourceB,
                 lastFired>>

\* main.js 693-699: input on a recording control
ChangeRecControl ==
  /\ UserEvent
  /\ \E c \in RecControls \cap ChangedControls, v \in ControlValues :
       v # dom[c] /\ dom' = [dom EXCEPT ![c] = v]
  /\ IfAudioSchedule
  /\ UNCHANGED <<callVars, playVars, vizVars, audioCtx, waveforms, nextWaveId, previewDur, rows,
                 timeout, runs, previewBuf, abSourceA, recorded, dacBuf,
                 abSourceB, lastFired>>

\* main.js 716-720: input on the DAC method or the DAC low-pass cutoff
ChangeDacControl ==
  /\ UserEvent
  /\ \E c \in DacControls \cap ChangedControls, v \in ControlValues :
       v # dom[c] /\ dom' = [dom EXCEPT ![c] = v]
  /\ IfAudioSchedule
  /\ UNCHANGED <<callVars, playVars, vizVars, audioCtx, waveforms, nextWaveId, previewDur, rows,
                 timeout, runs, previewBuf, abSourceA, recorded, dacBuf,
                 abSourceB, lastFired>>

\* main.js 744, utils.js 44-51: a resize event calls the debounced handler;
\* the event, numbered, is the argument `later` closes over
Resize ==
  /\ UserEvent
  /\ timers' = setTimeout(clearTimeout(timers, timeout), nextTimerId, "later",
                          ResizeWait, events + 1)
  /\ timeout' = nextTimerId
  /\ nextTimerId' = nextTimerId + 1
  /\ calls' = [calls EXCEPT !["renderWaves"] = [n |-> @.n + 1, arg |-> events + 1]]
  /\ idle' = [idle EXCEPT !["renderWaves"] = 0]
  /\ UNCHANGED <<callVars, playVars, vizVars, audioCtx, waveforms, nextWaveId, previewDur, rows, dom,
                 generationTimer, runs, previewBuf, abSourceA, recorded, dacBuf,
                 abSourceB, lastFired>>

\* main.js 677-680, 511-560: click on Play: playAB.  (Without an audio
\* context playAB returns at line 516 and nothing changes.)
PlayAB ==
  /\ UserEvent
  /\ audioCtx # NullRef
  /\ playAB(abMode)
  /\ UNCHANGED <<callVars, abMode, audioCtx, waveforms, nextWaveId, previewDur,
                 rows, dom, timers, nextTimerId, generationTimer, timeout,
                 previewBuf, abSourceA, recorded, dacBuf, abSourceB, calls, idle,
                 lastFired>>

\* clicks on Stop and on the two toggles in one behaviour, with the user's
\* other events
MaxClicks == 4

Click ==
  /\ events < MaxClicks
  /\ events' = events + 1

\* main.js 683-687, 562-580: click on Stop: stopAB
StopAB ==
  /\ Click
  /\ stopAB
  /\ UNCHANGED <<callVars, vizVars, abMode, nextSourceId, audioCtx, waveforms,
                 nextWaveId, previewDur, rows, dom, timers, nextTimerId,
                 generationTimer, timeout, runs, previewBuf, abSourceA, recorded,
                 dacBuf, abSourceB, calls, idle, lastFired>>

\* main.js 662-674, 498-507: click on the A or the B toggle: setABMode, and
\* playAB when a source is kept in abCurrentSource
ToggleAB ==
  /\ Click
  /\ \E mode \in {"A", "B"} :
        /\ abMode' = mode
        /\ IF abCurrentSource # NullRef /\ audioCtx # NullRef
             THEN playAB(mode)
             ELSE UNCHANGED <<runs, abCurrentSource, abPlaying, nextSourceId, vizVars>>
  /\ UNCHANGED <<callVars, audioCtx, waveforms, nextWaveId, previewDur, rows, dom,
                 timers, nextTimerId, generationTimer, timeout, previewBuf,
                 abSourceA, recorded, dacBuf, abSourceB, calls, idle, lastFired>>

\* time passes: TickMs less remains of every pending timer; idle[f] is the
\* time since the last call of f that has not run yet, up to the wait of f
Tick ==
  /\ timers' = {[t EXCEPT !.remaining = Max(0, @ - TickMs)] : t \in timers}
  /\ idle' = [f \in Debounced |->
               IF calls[f].n > 0 THEN Min(WaitOf(f), idle[f] + TickMs) ELSE idle[f]]
  /\ UNCHANGED <<callVars, playVars, vizVars, audioCtx, waveforms, nextWaveId, previewDur, rows, dom,
                 nextTimerId, generationTimer, timeout, runs, previewBuf,
                 abSourceA, recorded, dacBuf, abSourceB, events, calls, lastFired>>

\* what is noted of a timer callback when it runs
Fired(t, f) ==
  [callback |-> t.callback, waited |-> idle[f], calls |-> calls[f].n,
   arg |-> t.arg, lastArg |-> calls[f].arg]

\* main.js 132-138 and 587: a timer that calls generateAllSignals is due
TimerGenerate ==
  /\ \E t \in timers :
       /\ t.remaining = 0
       /\ t.callback \in {"generateAllSignals", "initial"}
       /\ timers' = timers \ {t}
       /\ IF t.callback = "generateAllSignals"
            THEN /\ lastFired' = Fired(t, "generateAllSignals")
                 /\ calls' = [calls EXCEPT !["generateAllSignals"] = [n |-> 0, arg |-> 0]]
            ELSE UNCHANGED <<lastFired, calls>>
  /\ runs' = generateAllSignals(runs)
  /\ UNCHANGED <<callVars, playVars, vizVars, audioCtx, waveforms, nextWaveId, previewDur, rows, dom,
                 nextTimerId, generationTimer, timeout, previewBuf, abSourceA,
                 recorded, dacBuf, abSourceB, events, idle>>

\* utils.js 45-48, main.js 740-742: the timer of handleResize is due: later
\* clears the timer and calls renderWaves
TimerLater ==
  /\ \E t \in timers :
       /\ t.remaining = 0
       /\ t.callback = "later"
       /\ timers' = clearTimeout(timers \ {t}, timeout)
       /\ lastFired' = Fired(t, "renderWaves")
  /\ calls' = [calls EXCEPT !["renderWaves"] = [n |-> 0, arg |-> 0]]
  /\ LET r == renderWaves(waveforms, nextWaveId, rows)
     IN /\ waveforms' = r.waveforms
        /\ nextWaveId' = r.nextWaveId
        /\ rows' = r.rows
  /\ UNCHANGED <<callVars, playVars, vizVars, audioCtx, previewDur, dom, nextTimerId, generationTimer,
                 timeout, runs, previewBuf, abSourceA, recorded, dacBuf, abSourceB,
                 events, idle>>

\* main.js 328-360, 380-402: the preview render of run r has finished:
\* previewBuf and abSourceA are assigned, the visualization is started, and
\* simulateRecording starts the
\* render of the recording from the controls and the waveforms as they are now
PreviewRendered ==
  /\ \E r \in 1..Len(runs) :
       /\ runs[r].pc = "preview"
       /\ previewBuf' = [run |-> r, duration |-> runs[r].preview.duration,
                         waves |-> runs[r].preview.waves]
       /\ abSourceA' = previewBuf'
       /\ IF audioCtx = NullRef \/ waveforms = <<>>
            THEN /\ runs' = [runs EXCEPT ![r] = Returned]
                 /\ dacBuf' = renderDAC(r, recorded)
                 /\ abSourceB' = IF dacBuf' = dacBuf THEN abSourceB ELSE dacBuf'
                 /\ continuation(r, abSourceA', abSourceB', 1)
            ELSE /\ runs' = [runs EXCEPT ![r].pc = "analog",
                                         ![r].analog =
                                            [controls |-> [c \in RecControls |-> dom[c]],
                                             waves |-> waveforms]]
                 /\ start
                 /\ UNCHANGED <<dacBuf, abSourceB, abCurrentSource, abPlaying,
                                nextSourceId>>
  /\ UNCHANGED <<callVars, abMode, audioCtx, waveforms, nextWaveId, previewDur, rows, dom,
                 timers, nextTimerId, generationTimer, timeout, recorded, events,
                 calls, idle, lastFired>>

\* main.js 404-455, 364, 474-494: the render of the recording of run r has
\* finished: recorded is assigned, and renderDAC assigns dacBuf and abSourceB
\* from it and from the DAC controls as they are now; the run returns and its
\* continuation, if playAB gave it one, runs
AnalogRendered ==
  /\ \E r \in 1..Len(runs) :
       /\ runs[r].pc = "analog"
       /\ recorded' = [run |-> r, controls |-> runs[r].analog.controls,
                       waves |-> runs[r].analog.waves]
       /\ dacBuf' = renderDAC(r, recorded')
       /\ abSourceB' = dacBuf'
       /\ runs' = [runs EXCEPT ![r] = Returned]
       /\ continuation(r, abSourceA, abSourceB', 0)
  /\ UNCHANGED <<callVars, abMode, audioCtx, waveforms, nextWaveId, previewDur, rows, dom,
                 timers, nextTimerId, generationTimer, timeout, previewBuf,
                 abSourceA, events, calls, idle, lastFired>>

InitApp ==
  /\ pc = "page"
  /\ args = NoRet
  /\ ret = NoRet
  /\ heap = NoHeap
  /\ PageLoaded

NextApp ==
  \/ EnableAudio \/ AddWave \/ EditWave \/ DeleteWave
  \/ ChangePreviewDur \/ ChangeRecControl \/ ChangeDacControl
  \/ Resize
  \/ Tick \/ TimerGenerate \/ TimerLater
  \/ PreviewRendered \/ AnalogRendered

SpecApp == InitApp /\ [][NextApp]_vars

\* the A/B player: Enable Audio, the clicks on Play, Stop and the toggles, and
\* the generation runs
NextAB ==
  \/ EnableAudio \/ PlayAB \/ StopAB \/ ToggleAB
  \/ Tick \/ TimerGenerate
  \/ PreviewRendered \/ AnalogRendered

SpecAB == InitApp /\ [][NextAB]_vars

(* ------------------------------------------------------------------ *)
(* Claims on the page                                                  *)
(* ------------------------------------------------------------------ *)

\* the pending timers set for the debounced function f
Pending(f) == {t \in timers : t.callback = CallbackOf(f)}

\* C17: rapid calls collapse into one run.  For scheduleGeneration and for the
\* function wrapped by debounce alike: at most one of its timers is pending at
\* any time, and one is pending exactly while calls have not been answered by
\* a run; the pending timer is the one of the last call (it carries that call's
\* arguments) and cannot be due before the whole wait has passed since that
\* call; and whenever the wrapped function has run, it ran once for all the
\* calls of the burst (one or more), a whole wait after the last of them, with
\* the arguments of the last call.
C17_DebounceOnce ==
  \A f \in Debounced :
    /\ Cardinality(Pending(f)) <= 1
    /\ (calls[f].n > 0) <=> (Pending(f) # {})
    /\ \A t \in Pending(f) :
         /\ t.remaining + idle[f] >= WaitOf(f)
         /\ t.arg = calls[f].arg
         /\ t.id = IF f = "generateAllSignals" THEN generationTimer ELSE timeout
    /\ (lastFired # NullRef /\ lastFired.callback = CallbackOf(f)) =>
         /\ lastFired.calls >= 1
         /\ lastFired.waited >= WaitOf(f)
         /\ lastFired.arg = lastFired.lastArg

\* a burst of two parameter changes has been answered by one run of
\* generateAllSignals, and nothing is pending
C17_Witness ==
  /\ lastFired # NullRef
  /\ lastFired.callback = "generateAllSignals"
  /\ lastFired.calls >= 2
  /\ Pending("generateAllSignals") = {}
  /\ Len(runs) = 2

\* every run of generateAllSignals started so far has returned
AllReturned == \A r \in 1..Len(runs) : runs[r].pc = "done"

\* C18, as stated: once the runs of generateAllSignals have finished, the
\* preview buffer, the recording and the DAC buffer (and the two A/B sources)
\* all hold what the most recently started run computed.
C18_AsStated ==
  (Len(runs) >= 2 /\ AllReturned) =>
    /\ previewBuf # NullRef /\ previewBuf.run = Len(runs)
    /\ abSourceA = previewBuf
    /\ recorded # NullRef /\ recorded.run = Len(runs)
    /\ dacBuf # NullRef /\ dacBuf.run = Len(runs) /\ dacBuf.recorded = recorded
    /\ abSourceB = dacBuf

\* a regeneration timer has just been set
Scheduled(ts) ==
  \E t \in ts : t.callback = "generateAllSignals" /\ t.remaining = GenerationWait

\* what the pipeline renders of a waveform list: its waveforms without their
\* row ids (main.js 330-332, 404-408)
ParamsOf(ws) ==
  [i \in 1..Len(ws) |->
     [type |-> ws[i].type, amp |-> ws[i].amp, freq |-> ws[i].freq,
      phaseDeg |-> ws[i].phaseDeg]]

\* C19, as stated: while audio is enabled, every step that changes a pipeline
\* parameter (the waveforms, by adding, editing or deleting one; the preview
\* duration; a recording control; a DAC control) sets the regeneration timer.
C19_AsStated ==
  [][(audioCtx # NullRef
       /\ <<ParamsOf(waveforms'), previewDur', dom'>>
            # <<ParamsOf(waveforms), previewDur, dom>>)
     => Scheduled(timers')]_vars

\* C29: after any sequence of clicks on Play, Stop and the A and B toggles
\* (Play clicks that wait for a generation included) at most one A/B buffer
\* source is started and not stopped, and it is the one in abCurrentSource; a
\* source that playAB has just started plays abSourceA in mode A and abSourceB
\* in mode B; after stopAB none is playing and abCurrentSource is null.
C29_OneSourcePlaying ==
  /\ [](/\ Cardinality(abPlaying) <= 1
        /\ abPlaying = (IF abCurrentSource = NullRef THEN {} ELSE {abCurrentSource}))
  /\ [][(abCurrentSource' # NullRef /\ abCurrentSource' # abCurrentSource) =>
          abCurrentSource'.buffer = (IF abMode' = "A" THEN abSourceA' ELSE abSourceB')]_vars
  /\ [][StopAB => (abPlaying' = {} /\ abCurrentSource' = NullRef)]_vars

\* a click on Play before the first generation waited for its own run, whose
\* continuation started source 1; the B toggle then replaced it by source 2,
\* which plays abSourceB
C29_Witness ==
  /\ Len(runs) = 1
  /\ \E t \in timers : t.callback = "initial"
  /\ abMode = "B"
  /\ abCurrentSource # NullRef
  /\ abCurrentSource.id = 2
  /\ abCurrentSource.buffer = abSourceB
  /\ abPlaying = {abCurrentSource}

\* C30: after initialization and after any additions and deletions of
\* waveforms, state.waveforms is not empty (deleting the last one adds the
\* default sine again) and its ids are pairwise distinct; ids are given in
\* strictly increasing order and none is given twice.
C30_WaveformIds ==
  /\ [](/\ waveforms # <<>>
        /\ \A i, j \in 1..Len(waveforms) : i < j => waveforms[i].id < waveforms[j].id
        /\ \A i \in 1..Len(waveforms) : waveforms[i].id < nextWaveId)
  /\ [][/\ nextWaveId' >= nextWaveId
         /\ \A j \in 1..Len(waveforms') :
               (\A i \in 1..Len(waveforms) : waveforms[i].id # waveforms'[j].id) =>
                  /\ waveforms'[j].id = nextWaveId
                  /\ nextWaveId' = nextWaveId + 1]_vars

\* the only waveform was deleted: the list holds the default sine under the
\* new id 2, while the page still shows the row of waveform 1
C30_Witness ==
  /\ waveforms = <<Wave(2, "sine", <<6, 10>>, 440, 0)>>
  /\ nextWaveId = 3
  /\ rows = <<1>>
====
